---- MODULE Spec2Model ----
(***************************************************************************)
(* Order lifecycle, courier assignment and payment reconciliation of the   *)
(* Deliveroo backend.                                                      *)
(*                                                                         *)
(* Python values are modelled as follows.                                  *)
(*   - None / a nullable column: the empty tuple << >>; a present value x  *)
(*     is <<x>> (Some(x)).                                                 *)
(*   - an f-string: the tuple of its fragments, in order, so that a        *)
(*     message "names" a status exactly when the status is a fragment.     *)
(*   - a coordinate: an integer number of millidegrees.  All points lie on *)
(*     one meridian (dlon = 0), where the haversine formula reduces to     *)
(*     r * |dlat| (in radians); distances are integers in metres.          *)
(***************************************************************************)
EXTENDS Integers, Sequences, FiniteSets, TLC

VARIABLES
    orders,         \* the delivery_orders table: order id (1..Len) -> row
    couriers,       \* the courier_profiles table: profile id -> row
    notifications,  \* the notifications table, in insertion order
    payments,       \* the payments table: payment id (1..Len) -> row
    audit,          \* per payment: the callbacks processed and their effects
    calls,          \* in-flight auto_assign_courier requests (concurrent runs)
    last            \* what the most recent request did and returned

vars == <<orders, couriers, notifications, payments, audit, calls, last>>

----------------------------------------------------------------------------
(* Bounds of the model *)

\* orders of a lifecycle run, and of a run of the assignment engine alone
NumOrders == 2
AssignOrders == 1
NumCouriers == 2
NumCallers == 2
\* callbacks processed per payment
MaxCallbacks == 2

OrderIds == 1..NumOrders
CourierIds == 1..NumCouriers
Callers == 1..NumCallers

\* users.id of the customers, and of the courier user that owns profile c
Customers == {1}
CourierUser(c) == Cardinality(Customers) + c
Users == Customers \cup {CourierUser(c) : c \in CourierIds}

----------------------------------------------------------------------------
(* Python values *)

None == << >>
Some(x) == <<x>>
Val(opt) == opt[1]

Abs(x) == IF x < 0 THEN -x ELSE x

\* pickup latitudes an order may be created with, in millidegrees
PickupLats == {-1286, -1214}
\* latitudes a courier may have reported: 3.0 km, 5.0 km and 25.0 km north
\* of the first pickup point (5.0 km, 3.0 km and 17.0 km from the second)
CourierLats == {-1259, -1241, -1061}
\* the meridian every point of the model lies on, in millidegrees
Meridian == 36822

----------------------------------------------------------------------------
(* Order statuses *)

PENDING == "PENDING"
ASSIGNED == "ASSIGNED"
PICKED_UP == "PICKED_UP"
IN_TRANSIT == "IN_TRANSIT"
DELIVERED == "DELIVERED"
CANCELLED == "CANCELLED"

OrderStatus == {PENDING, ASSIGNED, PICKED_UP, IN_TRANSIT, DELIVERED, CANCELLED}

\* the 'status' values a client may send: every status, two of them in lower
\* case, and a word that is no status
RawStatus == OrderStatus \cup {"picked_up", "cancelled", "SHIPPED"}

\* str.upper()
upper(s) ==
    CASE s = "picked_up" -> PICKED_UP
      [] s = "cancelled" -> CANCELLED
      [] OTHER -> s

\* request bodies of a status update: {"status": s}, or {} without the key
NoData == [k \in {} |-> ""]
StatusData == {[status |-> s] : s \in RawStatus} \cup {NoData}

----------------------------------------------------------------------------
(* OrderValidator.validate_status_update *)

\* the mutated tables of the checks below
valid_transitions_reopen ==
    [PENDING |-> <<PICKED_UP, CANCELLED>>,
     PICKED_UP |-> <<IN_TRANSIT, CANCELLED>>,
     IN_TRANSIT |-> <<DELIVERED>>,
     DELIVERED |-> << >>,
     CANCELLED |-> <<PENDING>>]

valid_transitions_self ==
    [PENDING |-> <<PICKED_UP, CANCELLED>>,
     PICKED_UP |-> <<IN_TRANSIT, CANCELLED>>,
     IN_TRANSIT |-> <<IN_TRANSIT, DELIVERED>>,
     DELIVERED |-> << >>,
     CANCELLED |-> << >>]

valid_transitions_back ==
    [PENDING |-> <<PICKED_UP, CANCELLED>>,
     PICKED_UP |-> <<IN_TRANSIT, CANCELLED>>,
     IN_TRANSIT |-> <<PICKED_UP, DELIVERED>>,
     DELIVERED |-> << >>,
     CANCELLED |-> << >>]

valid_transitions ==
    [PENDING |-> <<PICKED_UP, CANCELLED>>,
     PICKED_UP |-> <<IN_TRANSIT, CANCELLED>>,
     IN_TRANSIT |-> <<DELIVERED>>,
     DELIVERED |-> << >>,
     CANCELLED |-> << >>]

Elems(seq) == {seq[i] : i \in 1..Len(seq)}

\* ', '.join(list), as fragments
RECURSIVE join(_)
join(list) ==
    IF Len(list) = 0 THEN << >>
    ELSE IF Len(list) = 1 THEN <<list[1]>>
    ELSE <<list[1], ", ">> \o join(Tail(list))

\* returns (is_valid, new_status, errors)
validate_status_update(data, current_status) ==
    IF "status" \notin DOMAIN data
    THEN [is_valid |-> FALSE, new_status |-> None,
          errors |-> << <<"status is required">> >>]
    ELSE
      LET new_status == upper(data.status) IN
      IF current_status \notin DOMAIN valid_transitions
      THEN [is_valid |-> FALSE, new_status |-> None,
            errors |-> << <<"Invalid current status: ", current_status>> >>]
      ELSE
        LET valid_next == valid_transitions[current_status] IN
        IF new_status \notin Elems(valid_next)
        THEN [is_valid |-> FALSE, new_status |-> None,
              errors |->
                IF Len(valid_next) > 0
                THEN << <<"Cannot change status from ", current_status,
                          " to ", new_status, ". Valid transitions: ">>
                        \o join(valid_next) >>
                ELSE << <<"Cannot change status from ", current_status,
                          " - order is final">> >>]
        ELSE [is_valid |-> TRUE, new_status |-> Some(new_status),
              errors |-> << >>]

----------------------------------------------------------------------------
(* Tables *)

\* a delivery_orders row as the order-creation route inserts it
NewOrder(user_id, pickup_lat) ==
    [user_id |-> user_id, courier_id |-> None, status |-> PENDING,
     pickup_lat |-> pickup_lat, pickup_lng |-> Meridian]

Notification(user_id, order_id, type) ==
    [user_id |-> user_id, order_id |-> order_id, type |-> type]

\* a courier_profiles row
CourierProfile(c, is_available, is_verified, lat, lng) ==
    [user_id |-> CourierUser(c), is_available |-> is_available,
     is_verified |-> is_verified,
     current_latitude |-> lat, current_longitude |-> lng]

\* the rows a courier profile may hold: eligible at one of the latitudes, or
\* ineligible for one reason (unavailable, unverified, no latitude, no
\* longitude)
ProfileRows(c) ==
    {CourierProfile(c, TRUE, TRUE, Some(lat), Some(Meridian)) : lat \in CourierLats}
    \cup {CourierProfile(c, FALSE, TRUE, Some(-1259), Some(Meridian)),
          CourierProfile(c, TRUE, FALSE, Some(-1259), Some(Meridian)),
          CourierProfile(c, TRUE, TRUE, None, Some(Meridian)),
          CourierProfile(c, TRUE, TRUE, Some(-1259), None)}

\* the rows of the lifecycle runs: every courier eligible, the odd ones 3 km
\* and the even ones 5 km from the first pickup point
LifeRows(c) ==
    {CourierProfile(c, TRUE, TRUE,
                    Some(IF c % 2 = 1 THEN -1259 ELSE -1241), Some(Meridian))}
LifePickups == {-1286}

\* the courier tables whose row of profile c is one of rows[c]
Tables(rows) == {t \in [CourierIds -> UNION {rows[c] : c \in CourierIds}] :
                    \A c \in CourierIds : t[c] \in rows[c]}
LifeTables == Tables([c \in CourierIds |-> LifeRows(c)])
ProfileTables == Tables([c \in CourierIds |-> ProfileRows(c)])

----------------------------------------------------------------------------
(* haversine_distance_km, find_nearest_available_courier *)

\* Earth radius in km
r == 6371
\* default of max_distance_km
max_distance_km_default == 20

\* Distance in metres of two points in millidegrees.  With lon1 = lon2 the
\* formula gives r * |lat2 - lat1| * pi / 180; pi is taken as 355/113.
haversine_distance_km(lat1, lon1, lat2, lon2) ==
    (r * Abs(lat2 - lat1) * 355) \div (180 * 113)

\* the filter of the candidate query with the is_available test dropped
is_candidate_unavailable_too(courier) ==
    /\ courier.is_verified = TRUE
    /\ courier.current_latitude # None
    /\ courier.current_longitude # None

\* the filter of the candidate query
is_candidate(courier) ==
    /\ courier.is_available = TRUE
    /\ courier.is_verified = TRUE
    /\ courier.current_latitude # None
    /\ courier.current_longitude # None

Candidates == {c \in CourierIds : is_candidate(couriers[c])}

\* the orders in which .all() may return the candidate rows (no ORDER BY)
RECURSIVE Perms(_)
Perms(S) == IF S = {} THEN {<< >>}
            ELSE UNION {{<<c>> \o q : q \in Perms(S \ {c})} : c \in S}
QueryResults == Perms(Candidates)

\* the loop's test with the comparison against the nearest so far dropped
is_nearer_in_range(distance, max_distance_km, nearest_distance) ==
    distance <= max_distance_km * 1000

\* the loop's test with the comparison against max_distance_km dropped
is_nearer_any_distance(distance, max_distance_km, nearest_distance) ==
    nearest_distance = None \/ distance < Val(nearest_distance)

\* the loop's test: in range, and strictly nearer than the nearest so far
is_nearer(distance, max_distance_km, nearest_distance) ==
    /\ distance <= max_distance_km * 1000
    /\ (nearest_distance = None \/ distance < Val(nearest_distance))

RECURSIVE nearest_loop(_, _, _, _, _, _, _)
nearest_loop(candidates, i, pickup_lat, pickup_lng, max_distance_km, nearest, nearest_distance) ==
    IF i > Len(candidates)
    THEN [nearest |-> nearest, nearest_distance |-> nearest_distance]
    ELSE
      LET courier == couriers[candidates[i]]
          distance == haversine_distance_km(pickup_lat, pickup_lng,
                          Val(courier.current_latitude), Val(courier.current_longitude))
      IN IF is_nearer(distance, max_distance_km, nearest_distance)
         THEN nearest_loop(candidates, i + 1, pickup_lat, pickup_lng, max_distance_km,
                           Some(candidates[i]), Some(distance))
         ELSE nearest_loop(candidates, i + 1, pickup_lat, pickup_lng, max_distance_km,
                           nearest, nearest_distance)

\* candidates: the rows of the query, in the order .all() returned them
find_nearest_available_courier(pickup_lat, pickup_lng, max_distance_km, candidates) ==
    nearest_loop(candidates, 1, pickup_lat, pickup_lng, max_distance_km, None, None)

----------------------------------------------------------------------------
(* auto_assign_courier *)

\* line 56 with the test dropped
has_courier_never(order) == FALSE

\* "if order.courier_id:"
has_courier(order) == order.courier_id # None

\* the status test dropped: every status can be auto-assigned
auto_assignable_any(order) == TRUE

\* "order.status not in [PENDING, ASSIGNED]" negated
auto_assignable(order) == order.status \in {PENDING, ASSIGNED}

Failure(message) ==
    [success |-> FALSE, message |-> message, courier_id |-> None, distance |-> None]

\* The writes of a successful assignment of order_id, read as `order`, to the
\* courier profile `c`: the order row and the two notifications.
assign_orders(tbl, order_id, order, c) ==
    [tbl EXCEPT ![order_id] =
        [@ EXCEPT !.courier_id = Some(couriers[c].user_id), !.status = ASSIGNED]]

\* the writes with the courier's notification left out
assign_notifications_customer_only(tbl, order_id, order, c) ==
    tbl \o << Notification(order.user_id, order_id, "COURIER_ASSIGNED") >>

assign_notifications(tbl, order_id, order, c) ==
    tbl \o << Notification(order.user_id, order_id, "COURIER_ASSIGNED"),
              Notification(couriers[c].user_id, order_id, "NEW_ASSIGNMENT") >>

\* One whole request: what it returns and the tables it leaves, where
\* `candidates` is the result of the candidate query in the order returned.
\* (The returned distance is in metres and not rounded; the e-mail is not
\* part of the tables.)
auto_assign_courier(order_id, candidates) ==
    LET unchanged(message) ==
            [ret |-> Failure(message), orders |-> orders, notifications |-> notifications]
    IN
    IF order_id \notin 1..Len(orders)
    THEN unchanged(<<"Order not found">>)
    ELSE
      LET order == orders[order_id] IN
      IF has_courier(order)
      THEN unchanged(<<"Order already has assigned courier">>)
      ELSE IF ~auto_assignable(order)
      THEN unchanged(<<"Order status ", order.status, " cannot be auto-assigned">>)
      ELSE
        LET found == find_nearest_available_courier(
                         order.pickup_lat, order.pickup_lng,
                         max_distance_km_default, candidates)
        IN
        IF found.nearest = None
        THEN unchanged(<<"No available courier found">>)
        ELSE
          LET c == Val(found.nearest) IN
          IF couriers[c].user_id \notin Users
          THEN unchanged(<<"Courier user not found">>)
          ELSE
            [ret |-> [success |-> TRUE, message |-> << >>,
                      courier_id |-> Some(couriers[c].user_id),
                      distance |-> found.nearest_distance],
             orders |-> assign_orders(orders, order_id, order, c),
             notifications |-> assign_notifications(notifications, order_id, order, c)]

----------------------------------------------------------------------------
(* EmailService.send_courier_assigned *)

\* what mail.send does: it returns, or it raises
MailOutcomes == {"sent", "SMTPException"}

\* send_courier_assigned without its try/except: the exception leaves it
send_courier_assigned_raising(mail_send) ==
    IF mail_send = "sent"
    THEN [raised |-> None, ret |-> Some([status |-> "success", message |-> "Email sent"])]
    ELSE [raised |-> Some(mail_send), ret |-> None]

\* the message is built and sent inside try; "except Exception" returns the
\* error as a dict
send_courier_assigned(mail_send) ==
    IF mail_send = "sent"
    THEN [raised |-> None, ret |-> Some([status |-> "success", message |-> "Email sent"])]
    ELSE [raised |-> None, ret |-> Some([status |-> "error", message |-> mail_send])]

----------------------------------------------------------------------------
(* JSON values of a callback, tagged with their Python type *)

JInt(n) == [t |-> "int", v |-> n]
JStr(x) == [t |-> "str", v |-> x]
JBool(b) == [t |-> "bool", v |-> b]
JNull == [t |-> "null", v |-> "None"]
JList(items) == [t |-> "list", v |-> items]
JDict(f) == [t |-> "dict", v |-> f]
EmptyDict == JDict([k \in {} |-> JNull])
EmptyList == JList(<< >>)

IsDict(x) == x.t = "dict"

\* dict.get(key, default), for a dict d
get(d, key, default) == IF key \in DOMAIN d.v THEN d.v[key] ELSE default

\* d[key] = value
put(d, key, value) == [k \in DOMAIN d \cup {key} |-> IF k = key THEN value ELSE d[k]]

\* str(value)
str(value) ==
    CASE value.t = "str" -> value
      [] value.t = "int" -> JStr(ToString(value.v))
      [] value.t = "bool" -> JStr(IF value.v THEN "True" ELSE "False")
      [] value.t = "null" -> JStr("None")
      [] OTHER -> JStr("<repr>")

\* "for item in x" is possible: a list, a dict (its keys) or a str (its
\* characters); anything else raises TypeError
iterable(x) == x.t \in {"list", "dict", "str"}

\* the items "for item in x" visits
iter(x) ==
    CASE x.t = "list" -> x.v
      [] x.t = "dict" -> IF DOMAIN x.v = {} THEN << >>
                         ELSE <<JStr(CHOOSE k \in DOMAIN x.v : TRUE)>>
      [] x.t = "str" -> IF x.v = "" THEN << >> ELSE <<JStr("c")>>

----------------------------------------------------------------------------
(* MpesaService.parse_callback *)

\* line 284 written as a truth test: "if stk_callback.get('ResultCode'):"
result_code_truthy(stk_callback) ==
    LET code == get(stk_callback, "ResultCode", JNull) IN
    CASE code.t = "int" -> code.v # 0
      [] code.t = "bool" -> code.v
      [] code.t = "str" -> code.v # ""
      [] OTHER -> FALSE

\* line 284: stk_callback.get('ResultCode') == 0, as Python compares: the
\* int 0 and the bool False equal 0, a str or None does not
result_code_is_zero(stk_callback) ==
    LET code == get(stk_callback, "ResultCode", JNull) IN
    CASE code.t = "int" -> code.v = 0
      [] code.t = "bool" -> code.v = FALSE
      [] OTHER -> FALSE

\* lines 287-298: the loop over the metadata items, all of them dicts
RECURSIVE extract_metadata(_, _, _)
extract_metadata(result, items, i) ==
    IF i > Len(items) THEN result
    ELSE
      LET name == get(items[i], "Name", JNull)
          value == get(items[i], "Value", JNull)
          next ==
            CASE name = JStr("Amount") -> put(result, "amount", value)
              [] name = JStr("MpesaReceiptNumber") -> put(result, "receipt_number", value)
              [] name = JStr("TransactionDate") -> put(result, "transaction_date", str(value))
              [] name = JStr("PhoneNumber") -> put(result, "phone_number", str(value))
              [] OTHER -> result
      IN extract_metadata(next, items, i + 1)

\* lines 312-318: the result of the except branch
parse_error(callback_data) ==
    [success |-> FALSE, error |-> "exception", raw_data |-> callback_data]

parse_callback(callback_data) ==
    IF ~IsDict(callback_data) THEN parse_error(callback_data)
    ELSE
    LET body == get(callback_data, "Body", EmptyDict) IN
    IF ~IsDict(body) THEN parse_error(callback_data)
    ELSE
    LET stk_callback == get(body, "stkCallback", EmptyDict) IN
    IF ~IsDict(stk_callback) THEN parse_error(callback_data)
    ELSE
    LET result == [merchant_request_id |-> get(stk_callback, "MerchantRequestID", JNull),
                   checkout_request_id |-> get(stk_callback, "CheckoutRequestID", JNull),
                   result_code |-> get(stk_callback, "ResultCode", JNull),
                   result_description |-> get(stk_callback, "ResultDesc", JNull)]
    IN
    IF result_code_is_zero(stk_callback)
    THEN
      LET callback_metadata == get(stk_callback, "CallbackMetadata", EmptyDict) IN
      IF ~IsDict(callback_metadata) THEN parse_error(callback_data)
      ELSE
      LET metadata == get(callback_metadata, "Item", EmptyList) IN
      IF ~iterable(metadata) THEN parse_error(callback_data)
      ELSE IF \E i \in 1..Len(iter(metadata)) : ~IsDict(iter(metadata)[i])
      THEN parse_error(callback_data)
      ELSE put(put(extract_metadata(result, iter(metadata), 1),
                   "success", TRUE), "status", "completed")
    ELSE put(put(result, "success", FALSE), "status", "failed")

----------------------------------------------------------------------------
(* PricingService.  Distances are in tenths of a km, weights in tenths of a
   kg, prices in tenths of a shilling, multipliers in percent. *)

BASE_PRICE == 1500
PRICE_PER_KM == 30
FREE_DISTANCE_KM == 20
PRICE_PER_KG == 10
FREE_WEIGHT_KG == 50
FRAGILE_CHARGE == 500
INSURANCE_CHARGE == 1000
WEEKEND_MULTIPLIER == 120
EXPRESS_MULTIPLIER == 150

\* the distance price without the per-km part
calculate_distance_price_flat(distance_km) == BASE_PRICE

calculate_distance_price(distance_km) ==
    IF distance_km <= FREE_DISTANCE_KM
    THEN BASE_PRICE
    ELSE LET extra_km == distance_km - FREE_DISTANCE_KM
         IN BASE_PRICE + extra_km * PRICE_PER_KM

calculate_weight_price(weight_kg) ==
    IF weight_kg <= FREE_WEIGHT_KG
    THEN 0
    ELSE LET extra_kg == weight_kg - FREE_WEIGHT_KG
         IN extra_kg * PRICE_PER_KG

calculate_fragile_charge(is_fragile) == IF is_fragile THEN FRAGILE_CHARGE ELSE 0

calculate_insurance_charge(needs_insurance) ==
    IF needs_insurance THEN INSURANCE_CHARGE ELSE 0

calculate_weekend_surcharge(is_weekend, subtotal) ==
    IF is_weekend THEN (subtotal * (WEEKEND_MULTIPLIER - 100)) \div 100 ELSE 0

\* the express surcharge taken on the subtotal after the weekend multiplier
calculate_express_surcharge_compounded(is_express, subtotal) ==
    IF is_express
    THEN (((subtotal * WEEKEND_MULTIPLIER) \div 100) * (EXPRESS_MULTIPLIER - 100)) \div 100
    ELSE 0

calculate_express_surcharge(is_express, subtotal) ==
    IF is_express THEN (subtotal * (EXPRESS_MULTIPLIER - 100)) \div 100 ELSE 0

\* is_weekend is None when the caller leaves it out; is_weekend_delivery is
\* what the clock then says
calculate_price_breakdown(distance_km, weight_kg, is_fragile, needs_insurance, is_express, is_weekend, is_weekend_delivery) ==
    LET weekend == IF is_weekend = None THEN is_weekend_delivery ELSE Val(is_weekend)
        base_price == calculate_distance_price(distance_km)
        weight_price == calculate_weight_price(weight_kg)
        fragile_charge == calculate_fragile_charge(is_fragile)
        insurance_charge == calculate_insurance_charge(needs_insurance)
        subtotal == base_price + weight_price + fragile_charge + insurance_charge
        weekend_surcharge == calculate_weekend_surcharge(weekend, subtotal)
        express_surcharge == calculate_express_surcharge(is_express, subtotal)
        extra_charges == fragile_charge + insurance_charge
                         + weekend_surcharge + express_surcharge
        total_price == subtotal + weekend_surcharge + express_surcharge
    IN [base_price |-> base_price,
        distance_price |-> base_price,
        weight_price |-> weight_price,
        fragile_charge |-> fragile_charge,
        insurance_charge |-> insurance_charge,
        weekend_surcharge |-> weekend_surcharge,
        express_surcharge |-> express_surcharge,
        extra_charges |-> [fragile |-> fragile_charge,
                           insurance |-> insurance_charge,
                           weekend |-> weekend_surcharge,
                           express |-> express_surcharge,
                           total |-> extra_charges],
        subtotal_before_multipliers |-> subtotal,
        total_price |-> total_price,
        currency |-> "KES"]

\* int(x) for the fraction num/den with den > 0: truncation towards zero
int(num, den) == IF num >= 0 THEN num \div den ELSE -((-num) \div den)

max(a, b) == IF a >= b THEN a ELSE b

\* (distance_km / 30) * 60 minutes is distance_km / 5 with the distance in
\* tenths of a km, times 0.7 for express: 15 + that is
\* (750 + distance_km * (7 or 10)) / 50
calculate_estimated_delivery_time(distance_km, is_express) ==
    LET base_minutes_50 == IF is_express THEN distance_km * 7 ELSE distance_km * 10
        preparation_time == 15
        total_minutes == int(preparation_time * 50 + base_minutes_50, 50)
    IN max(30, total_minutes)

SMALL == "SMALL"
MEDIUM == "MEDIUM"
LARGE == "LARGE"
XLARGE == "XLARGE"

determine_weight_category(weight_kg) ==
    IF weight_kg < 50 THEN SMALL
    ELSE IF weight_kg < 200 THEN MEDIUM
    ELSE IF weight_kg < 500 THEN LARGE
    ELSE XLARGE

\* returns (is_valid, error_message)
validate_price_input(distance_km, weight_kg) ==
    IF distance_km <= 0
    THEN [is_valid |-> FALSE, error_message |-> Some("Distance must be greater than 0")]
    ELSE IF weight_kg <= 0
    THEN [is_valid |-> FALSE, error_message |-> Some("Weight must be greater than 0")]
    ELSE IF weight_kg > 1000
    THEN [is_valid |-> FALSE, error_message |-> Some("Weight cannot exceed 100kg")]
    ELSE [is_valid |-> TRUE, error_message |-> None]

\* dict.get(key, default) for a request body, a function from its keys
dget(data, key, default) == IF key \in DOMAIN data THEN data[key] ELSE default

\* float(value): a number (Some(n)) is itself, None raises TypeError
float_raises(value) == value = None

\* create_order_summary on the order data and on what
\* MapsService.calculate_distance returned; ret is None when float() raised.
\* The display field 'hours' and the pass-through 'duration_minutes' are
\* left out of the summary.
create_order_summary(order_data, distance_result) ==
    LET weight == dget(order_data, "weight_kg", Some(10))
        is_fragile == dget(order_data, "fragile", FALSE)
        needs_insurance == dget(order_data, "insurance_required", FALSE)
        is_express == dget(order_data, "is_express", FALSE)
        is_weekend == dget(order_data, "is_weekend", FALSE)
        distance_km == dget(distance_result, "distance_km", 0)
    IN IF float_raises(weight)
       THEN [raised |-> Some("TypeError"), ret |-> None]
       ELSE LET weight_kg == Val(weight) IN
            [raised |-> None,
             ret |-> Some(
               [distance |-> [km |-> distance_km],
                price_breakdown |->
                    calculate_price_breakdown(distance_km, weight_kg, is_fragile,
                                              needs_insurance, is_express,
                                              Some(is_weekend), FALSE),
                estimated_delivery |->
                    [minutes |-> calculate_estimated_delivery_time(distance_km, is_express)],
                weight_category |-> determine_weight_category(weight_kg),
                weight_kg |-> weight_kg])]

----------------------------------------------------------------------------
(* MpesaService.initiate_stk_push *)

\* the truth value of a JSON value, as "x or y" tests it
truthy(value) ==
    CASE value.t = "null" -> FALSE
      [] value.t = "bool" -> value.v
      [] value.t = "int" -> value.v # 0
      [] value.t = "str" -> value.v # ""
      [] value.t = "list" -> value.v # << >>
      [] value.t = "dict" -> DOMAIN value.v # {}

\* "x or y"
or(x, y) == IF truthy(x) THEN x ELSE y

\* line 165 with the test dropped: every answer counts as an acknowledgement
response_code_any(result) == TRUE

\* line 165: result.get('ResponseCode') == '0'
response_code_is_0(result) == get(result, "ResponseCode", JNull) = JStr("0")

\* access_token: whether _get_access_token returned a token; response: the
\* JSON object of the gateway's answer, or None when requests.post raised a
\* RequestException.  posts counts the calls of requests.post.
initiate_stk_push(access_token, response) ==
    IF ~access_token
    THEN [posts |-> 0,
          ret |-> [success |-> FALSE,
                   error |-> JStr("Failed to authenticate with M-Pesa"),
                   error_code |-> JStr("AUTH_FAILED")]]
    ELSE IF response = None
    THEN [posts |-> 1,
          ret |-> [success |-> FALSE, error |-> JStr("exception"),
                   error_code |-> JStr("REQUEST_FAILED")]]
    ELSE
      LET result == Val(response) IN
      IF response_code_is_0(result)
      THEN [posts |-> 1,
            ret |-> [success |-> TRUE,
                     checkout_request_id |-> get(result, "CheckoutRequestID", JNull),
                     merchant_request_id |-> get(result, "MerchantRequestID", JNull),
                     response_description |-> get(result, "ResponseDescription", JNull),
                     message |-> JStr("STK push sent. Check your phone to complete payment.")]]
      ELSE [posts |-> 1,
            ret |-> [success |-> FALSE,
                     error |-> or(get(result, "errorMessage", JNull),
                                  get(result, "ResponseDescription", JNull)),
                     error_code |-> or(get(result, "errorCode", JNull),
                                       get(result, "ResponseCode", JNull)),
                     raw_response |-> result]]

----------------------------------------------------------------------------
(* MpesaService.query_stk_status *)

\* lines 229-235
status_map ==
    ("0" :> <<"completed", "Transaction successful">>)
    @@ ("1" :> <<"failed", "Insufficient balance">>)
    @@ ("1032" :> <<"cancelled", "Transaction cancelled by user">>)
    @@ ("1037" :> <<"timeout", "Transaction timed out">>)
    @@ ("2001" :> <<"failed", "Wrong PIN entered">>)

\* access_token: whether _get_access_token returned a token; response: the
\* JSON object of the gateway's answer, or None when requests.post raised a
\* RequestException
query_stk_status(access_token, response) ==
    IF ~access_token
    THEN [success |-> FALSE, error |-> "Failed to authenticate with M-Pesa"]
    ELSE IF response = None
    THEN [success |-> FALSE, error |-> "exception"]
    ELSE
      LET result == Val(response)
          result_code == get(result, "ResultCode", JNull)
          key == str(result_code).v
      IN IF key \in DOMAIN status_map
         THEN [success |-> TRUE, status |-> status_map[key][1],
               result_code |-> result_code,
               result_description |-> get(result, "ResultDesc", JStr(status_map[key][2])),
               raw_response |-> result]
         ELSE [success |-> TRUE, status |-> "unknown",
               result_code |-> result_code,
               result_description |-> get(result, "ResultDesc", JNull),
               raw_response |-> result]

\* the gateway's answer to a status query of a transaction whose result code
\* is the code given
QueryResponse(code) ==
    LET base == [ResponseCode |-> JStr("0"), CheckoutRequestID |-> JStr("1"),
                 ResultDesc |-> JStr("desc")]
    IN JDict(IF code = None THEN base ELSE put(base, "ResultCode", Val(code)))

----------------------------------------------------------------------------
(* OrderValidator: request data.  In the data of a validation request a
   str is the sequence of its characters, coordinates are whole degrees and
   weights whole kg. *)

Text(chars) == [t |-> "str", v |-> chars]

Digit == {"0", "1", "2", "3", "4", "5", "6", "7", "8", "9"}

DigitValue ==
    [c \in Digit |->
        CASE c = "0" -> 0 [] c = "1" -> 1 [] c = "2" -> 2 [] c = "3" -> 3
          [] c = "4" -> 4 [] c = "5" -> 5 [] c = "6" -> 6 [] c = "7" -> 7
          [] c = "8" -> 8 [] c = "9" -> 9]

\* "not value" of the required-field tests
not(value) ==
    CASE value.t = "null" -> TRUE
      [] value.t = "bool" -> ~value.v
      [] value.t = "int" -> value.v = 0
      [] value.t = "str" -> Len(value.v) = 0

\* str.strip() on the characters
RECURSIVE lstrip(_)
lstrip(chars) ==
    IF Len(chars) > 0 /\ Head(chars) = " " THEN lstrip(Tail(chars)) ELSE chars

RECURSIVE rstrip(_)
rstrip(chars) ==
    IF Len(chars) > 0 /\ chars[Len(chars)] = " "
    THEN rstrip(SubSeq(chars, 1, Len(chars) - 1))
    ELSE chars

strip(chars) == rstrip(lstrip(chars))

all_digits(chars) == \A i \in 1..Len(chars) : chars[i] \in Digit

RECURSIVE digits_value(_)
digits_value(chars) ==
    IF Len(chars) = 0 THEN 0
    ELSE digits_value(SubSeq(chars, 1, Len(chars) - 1)) * 10
         + DigitValue[chars[Len(chars)]]

\* float(value): Some(number), or None when it raises TypeError or
\* ValueError.  Of the numerals only the whole ones, with or without sign,
\* occur in the data.
float(value) ==
    CASE value.t = "int" -> Some(value.v)
      [] value.t = "bool" -> Some(IF value.v THEN 1 ELSE 0)
      [] value.t = "null" -> None
      [] value.t = "str" ->
           LET s == strip(value.v)
               signed == Len(s) > 0 /\ Head(s) \in {"-", "+"}
               digits == IF signed THEN Tail(s) ELSE s
           IN IF Len(digits) > 0 /\ all_digits(digits)
              THEN Some(IF signed /\ Head(s) = "-"
                        THEN -digits_value(digits) ELSE digits_value(digits))
              ELSE None

\* Python's ==: numbers by value, strs by their characters, a number and a
\* str never
py_eq(x, y) ==
    IF x.t \in {"int", "bool"} /\ y.t \in {"int", "bool"}
    THEN Val(float(x)) = Val(float(y))
    ELSE x.t = y.t /\ x.v = y.v

----------------------------------------------------------------------------
(* OrderValidator.validate_coordinates *)

\* returns (is_valid, error_message)
validate_coordinates(lat, lng, prefix) ==
    IF float(lat) = None \/ float(lng) = None
    THEN [is_valid |-> FALSE,
          error |-> Some(<<prefix, " coordinates must be valid numbers">>)]
    ELSE IF ~(-90 <= Val(float(lat)) /\ Val(float(lat)) <= 90)
    THEN [is_valid |-> FALSE,
          error |-> Some(<<prefix, " latitude must be between -90 and 90">>)]
    ELSE IF ~(-180 <= Val(float(lng)) /\ Val(float(lng)) <= 180)
    THEN [is_valid |-> FALSE,
          error |-> Some(<<prefix, " longitude must be between -180 and 180">>)]
    ELSE [is_valid |-> TRUE, error |-> None]

\* _validate_coordinates: the errors list afterwards
validate_coordinates_into(lat, lng, prefix, errors) ==
    LET v == validate_coordinates(lat, lng, prefix)
    IN IF ~v.is_valid THEN Append(errors, Val(v.error)) ELSE errors

----------------------------------------------------------------------------
(* OrderValidator: phone numbers, dimensions and addresses *)

\* ^254[71]\d{8}$
phone_pattern_1(s) ==
    /\ Len(s) = 12
    /\ SubSeq(s, 1, 3) = <<"2", "5", "4">>
    /\ s[4] \in {"7", "1"}
    /\ all_digits(SubSeq(s, 5, 12))

\* ^07[0-9]{8}$
phone_pattern_2(s) ==
    /\ Len(s) = 10
    /\ SubSeq(s, 1, 2) = <<"0", "7">>
    /\ all_digits(SubSeq(s, 3, 10))

\* ^\+254[71]\d{8}$
phone_pattern_3(s) ==
    /\ Len(s) = 13
    /\ SubSeq(s, 1, 4) = <<"+", "2", "5", "4">>
    /\ s[5] \in {"7", "1"}
    /\ all_digits(SubSeq(s, 6, 13))

validate_phone_number(phone) ==
    IF not(phone) THEN FALSE
    ELSE LET s == strip(phone.v)
         IN phone_pattern_1(s) \/ phone_pattern_2(s) \/ phone_pattern_3(s)

\* re.sub(r'[\s-]', '', phone)
RECURSIVE remove_spaces_dashes(_)
remove_spaces_dashes(chars) ==
    IF Len(chars) = 0 THEN << >>
    ELSE IF Head(chars) \in {" ", "-"} THEN remove_spaces_dashes(Tail(chars))
    ELSE <<Head(chars)>> \o remove_spaces_dashes(Tail(chars))

startswith(chars, prefix) ==
    Len(chars) >= Len(prefix) /\ SubSeq(chars, 1, Len(prefix)) = prefix

normalize_phone_number(phone) ==
    LET p1 == remove_spaces_dashes(strip(phone.v))
        p2 == IF startswith(p1, <<"+", "2", "5", "4">>) THEN Tail(p1) ELSE p1
        p3 == IF startswith(p2, <<"0", "7">>)
              THEN <<"2", "5", "4">> \o Tail(p2) ELSE p2
    IN Text(p3)

\* \d+(\.\d+)? on the whole of chars
is_decimal(chars) ==
    \/ Len(chars) > 0 /\ all_digits(chars)
    \/ \E i \in 2..(Len(chars) - 1) :
          /\ chars[i] = "."
          /\ all_digits(SubSeq(chars, 1, i - 1))
          /\ all_digits(SubSeq(chars, i + 1, Len(chars)))

\* ^\d+(\.\d+)?x\d+(\.\d+)?x\d+(\.\d+)?$
validate_dimensions(dimensions) ==
    IF not(dimensions) THEN TRUE
    ELSE LET s == dimensions.v
         IN \E i \in 1..Len(s), j \in 1..Len(s) :
               /\ i < j /\ s[i] = "x" /\ s[j] = "x"
               /\ is_decimal(SubSeq(s, 1, i - 1))
               /\ is_decimal(SubSeq(s, i + 1, j - 1))
               /\ is_decimal(SubSeq(s, j + 1, Len(s)))

\* _validate_address: the errors list afterwards
validate_address_into(address, field_name, errors) ==
    IF not(address) \/ Len(strip(address.v)) = 0
    THEN Append(errors, <<field_name, " is required">>)
    ELSE IF Len(strip(address.v)) < 5
    THEN Append(errors, <<field_name, " must be at least 5 characters">>)
    ELSE IF Len(strip(address.v)) > 500
    THEN Append(errors, <<field_name, " cannot exceed 500 characters">>)
    ELSE errors

----------------------------------------------------------------------------
(* OrderValidator.validate_create_order, validate_update_destination and
   validate_price_estimate.  Each returns (is_valid, validated_data, errors);
   raised is the exception that left the validator instead, if any. *)

EmptyData == [k \in {} |-> JNull]

\* the loop over required_fields, from field i on
RECURSIVE required_loop(_, _, _, _, _)
required_loop(data, required_fields, i, validated_data, errors) ==
    IF i > Len(required_fields)
    THEN [validated_data |-> validated_data, errors |-> errors]
    ELSE LET field == required_fields[i] IN
         IF field \notin DOMAIN data \/ not(data[field])
         THEN required_loop(data, required_fields, i + 1, validated_data,
                            Append(errors, <<field, " is required">>))
         ELSE required_loop(data, required_fields, i + 1,
                            put(validated_data, field, data[field]), errors)

\* data.get(key) is there and truthy
given(data, key) == key \in DOMAIN data /\ ~not(data[key])

\* "return len(errors) == 0, validated_data if errors else None, errors"
validation_result(validated_data, errors) ==
    [raised |-> None,
     is_valid |-> Len(errors) = 0,
     validated_data |-> IF Len(errors) > 0 THEN Some(validated_data) ELSE None,
     errors |-> errors]

Raised(exception) ==
    [raised |-> Some(exception), is_valid |-> FALSE, validated_data |-> None,
     errors |-> << >>]

\* the weight check: the validated data and the errors list afterwards
validate_weight(validated_data, errors) ==
    LET weight_kg == Val(float(validated_data["weight_kg"]))
    IN IF weight_kg <= 0
       THEN [validated_data |-> validated_data,
             errors |-> Append(errors, <<"Weight must be greater than 0 kg">>)]
       ELSE IF weight_kg > 100
       THEN [validated_data |-> validated_data,
             errors |-> Append(errors, <<"Weight cannot exceed 100 kg">>)]
       ELSE [validated_data |-> put(validated_data, "weight_kg", JInt(weight_kg)),
             errors |-> errors]

\* an optional phone number: the validated data and the errors list afterwards
validate_phone(data, key, message, s) ==
    IF given(data, key)
    THEN IF ~validate_phone_number(data[key])
         THEN [validated_data |-> s.validated_data,
               errors |-> Append(s.errors, <<message>>)]
         ELSE [validated_data |->
                   put(s.validated_data, key, normalize_phone_number(data[key])),
               errors |-> s.errors]
    ELSE s

\* an optional flag, False when left out
flag(data, key, s) ==
    [validated_data |->
         put(s.validated_data, key,
             IF key \in DOMAIN data THEN data[key] ELSE JBool(FALSE)),
     errors |-> s.errors]

validate_description(data, s) ==
    IF given(data, "parcel_description")
    THEN LET description == strip(data["parcel_description"].v) IN
         IF Len(description) < 3
         THEN [validated_data |-> s.validated_data,
               errors |-> Append(s.errors,
                   <<"Parcel description must be at least 3 characters">>)]
         ELSE IF Len(description) > 500
         THEN [validated_data |-> s.validated_data,
               errors |-> Append(s.errors,
                   <<"Parcel description cannot exceed 500 characters">>)]
         ELSE [validated_data |->
                   put(s.validated_data, "parcel_description", Text(description)),
               errors |-> s.errors]
    ELSE s

validate_parcel_dimensions(data, s) ==
    IF given(data, "parcel_dimensions")
    THEN IF ~validate_dimensions(data["parcel_dimensions"])
         THEN [validated_data |-> s.validated_data,
               errors |-> Append(s.errors,
                   <<"Invalid parcel dimensions format (expected: LxWxH in cm)">>)]
         ELSE [validated_data |->
                   put(s.validated_data, "parcel_dimensions", data["parcel_dimensions"]),
               errors |-> s.errors]
    ELSE s

\* the check of lines 120-123: the errors list afterwards
same_location(validated_data, errors) ==
    IF /\ py_eq(validated_data["pickup_lat"], validated_data["destination_lat"])
       /\ py_eq(validated_data["pickup_lng"], validated_data["destination_lng"])
    THEN Append(errors, <<"Pickup and destination cannot be the same location">>)
    ELSE errors

validate_create_order(data) ==
    LET required_fields == <<"pickup_lat", "pickup_lng", "pickup_address",
                             "destination_lat", "destination_lng",
                             "destination_address", "weight_kg">>
        s0 == required_loop(data, required_fields, 1, EmptyData, << >>)
    IN IF Len(s0.errors) > 0
       THEN [raised |-> None, is_valid |-> FALSE, validated_data |-> None,
             errors |-> s0.errors]
       ELSE
       LET v == s0.validated_data
           e1 == validate_coordinates_into(v["pickup_lat"], v["pickup_lng"],
                                           "Pickup", s0.errors)
           e2 == validate_coordinates_into(v["destination_lat"], v["destination_lng"],
                                           "Destination", e1)
       IN IF float(v["weight_kg"]) = None
          THEN Raised("ValueError")
          ELSE
          LET s3 == validate_weight(v, e2)
              s4 == validate_phone(data, "pickup_phone",
                                   "Invalid pickup phone number format", s3)
              s5 == validate_phone(data, "destination_phone",
                                   "Invalid destination phone number format", s4)
              s6 == flag(data, "is_weekend",
                      flag(data, "is_express",
                        flag(data, "insurance_required",
                          flag(data, "fragile", s5))))
              s7 == validate_description(data, s6)
              s8 == validate_parcel_dimensions(data, s7)
              e9 == validate_address_into(s8.validated_data["pickup_address"],
                                          "Pickup address", s8.errors)
              e10 == validate_address_into(s8.validated_data["destination_address"],
                                           "Destination address", e9)
              e11 == same_location(s8.validated_data, e10)
          IN validation_result(s8.validated_data, e11)

\* current_status is not read
validate_update_destination(data, current_status) ==
    LET required_fields == <<"destination_lat", "destination_lng",
                             "destination_address">>
        s0 == required_loop(data, required_fields, 1, EmptyData, << >>)
    IN IF Len(s0.errors) > 0
       THEN [raised |-> None, is_valid |-> FALSE, validated_data |-> None,
             errors |-> s0.errors]
       ELSE
       LET v == s0.validated_data
           e1 == validate_coordinates_into(v["destination_lat"], v["destination_lng"],
                                           "Destination", s0.errors)
           e2 == validate_address_into(v["destination_address"],
                                       "Destination address", e1)
           s3 == validate_phone(data, "destination_phone",
                                "Invalid destination phone number format",
                                [validated_data |-> v, errors |-> e2])
       IN validation_result(s3.validated_data, s3.errors)

validate_price_estimate(data) ==
    LET required_fields == <<"pickup_lat", "pickup_lng", "destination_lat",
                             "destination_lng", "weight_kg">>
        s0 == required_loop(data, required_fields, 1, EmptyData, << >>)
    IN IF Len(s0.errors) > 0
       THEN [raised |-> None, is_valid |-> FALSE, validated_data |-> None,
             errors |-> s0.errors]
       ELSE
       LET v == s0.validated_data
           e1 == validate_coordinates_into(v["pickup_lat"], v["pickup_lng"],
                                           "Pickup", s0.errors)
           e2 == validate_coordinates_into(v["destination_lat"], v["destination_lng"],
                                           "Destination", e1)
       IN IF float(v["weight_kg"]) = None
          THEN Raised("ValueError")
          ELSE
          LET s3 == validate_weight(v, e2)
              s4 == flag(data, "is_express",
                      flag(data, "insurance_required",
                        flag(data, "fragile", s3)))
          IN validation_result(s4.validated_data, s4.errors)

----------------------------------------------------------------------------
(* Requests, each one serializable unit of work *)

NoCalls == [k \in Callers |-> [pc |-> "idle", order_id |-> 0, order |-> None,
                               courier |-> None, ret |-> None]]

\* The record of a request: the operation, the order it named, that order's
\* status before it, the raw status requested, the candidate query's result,
\* and what was returned (success, new status, errors or message, courier).
Last(op, order_id, current, requested, query, ok, new_status, errors, courier_id) ==
    [op |-> op, order |-> order_id, current |-> current, requested |-> requested,
     query |-> query, ok |-> ok, new_status |-> new_status, errors |-> errors,
     courier_id |-> courier_id]

StatusOf(order_id) ==
    IF order_id \in 1..Len(orders) THEN orders[order_id].status ELSE ""

\* order creation: a PENDING order without courier
CreateOrder(user_id, pickup_lat) ==
    /\ Len(orders) < NumOrders
    /\ orders' = Append(orders, NewOrder(user_id, pickup_lat))
    /\ last' = Last("create_order", Len(orders) + 1, "", "", << >>, TRUE, None, << >>, None)
    /\ UNCHANGED <<couriers, notifications, payments, audit, calls>>

\* a status-update request: the order's status becomes the validated status
UpdateStatus(order_id, data) ==
    /\ order_id \in 1..Len(orders)
    /\ LET v == validate_status_update(data, orders[order_id].status) IN
         /\ orders' = IF v.is_valid
                      THEN [orders EXCEPT ![order_id].status = Val(v.new_status)]
                      ELSE orders
         /\ last' = Last("update_status", order_id, orders[order_id].status,
                         IF "status" \in DOMAIN data THEN data.status ELSE "",
                         << >>, v.is_valid, v.new_status, v.errors, None)
    /\ UNCHANGED <<couriers, notifications, payments, audit, calls>>

\* the request for order_id gets as far as the candidate query
reaches_query(order_id) ==
    /\ order_id \in 1..Len(orders)
    /\ ~has_courier(orders[order_id])
    /\ auto_assignable(orders[order_id])

\* what the candidate query of a request for order_id may return; nothing
\* when the request returns before it
QueryResultsFor(order_id) ==
    IF reaches_query(order_id) THEN QueryResults ELSE {<< >>}

\* an auto-assignment request, committed by its caller
AutoAssign(order_id) ==
    /\ \E candidates \in QueryResultsFor(order_id) :
       \E a \in {auto_assign_courier(order_id, candidates)} :
         /\ orders' = a.orders
         /\ notifications' = a.notifications
         /\ last' = Last("auto_assign", order_id, StatusOf(order_id), "", candidates,
                         a.ret.success, None,
                         IF a.ret.success THEN << >> ELSE <<a.ret.message>>,
                         a.ret.courier_id)
    /\ UNCHANGED <<couriers, payments, audit, calls>>

InitWith(tables) ==
    /\ orders = << >>
    /\ couriers \in tables
    /\ notifications = << >>
    /\ payments = << >>
    /\ audit = << >>
    /\ calls = NoCalls
    /\ last = Last("init", 0, "", "", << >>, TRUE, None, << >>, None)

Init == InitWith(LifeTables)

Next ==
    \/ \E u \in Customers, lat \in LifePickups : CreateOrder(u, lat)
    \/ \E o \in OrderIds, data \in StatusData : UpdateStatus(o, data)
    \/ \E o \in OrderIds : AutoAssign(o)

\* the order lifecycle: creation, status updates, auto-assignment
Spec == Init /\ [][Next]_vars

InitAssign == InitWith(ProfileTables)

NextAssign ==
    \/ \E u \in Customers, lat \in PickupLats :
          Len(orders) < AssignOrders /\ CreateOrder(u, lat)
    \/ \E o \in 1..(AssignOrders + 1) : AutoAssign(o)

\* the assignment engine alone, over every courier table
SpecAssign == InitAssign /\ [][NextAssign]_vars

\* the delivery_orders rows of the seed: one PENDING without courier, one
\* IN_TRANSIT with the first courier, one DELIVERED with the second
SeedOrder(user_id, courier_id, status, pickup_lat) ==
    [NewOrder(user_id, pickup_lat) EXCEPT !.courier_id = courier_id, !.status = status]

SeedOrders ==
    << NewOrder(1, -1286),
       SeedOrder(1, Some(CourierUser(1)), IN_TRANSIT, -1292),
       SeedOrder(1, Some(CourierUser(2)), DELIVERED, -1318) >>

InitSeed ==
    /\ orders = SeedOrders
    /\ couriers \in LifeTables
    /\ notifications = << >>
    /\ payments = << >>
    /\ audit = << >>
    /\ calls = NoCalls
    /\ last = Last("init", 0, "", "", << >>, TRUE, None, << >>, None)

NextSeed ==
    \/ \E o \in 1..Len(orders), data \in StatusData : UpdateStatus(o, data)
    \/ \E o \in 1..(Len(orders) + 1) : AutoAssign(o)

\* status updates and auto-assignment on the seeded orders
SpecSeed == InitSeed /\ [][NextSeed]_vars

----------------------------------------------------------------------------
(* Auto-assignment with its e-mail (under SpecEmail) *)

\* An auto-assignment request with lines 87-94: when the assignment was
\* written and the customer has an e-mail address, send_courier_assigned is
\* called and its return value dropped.  An exception leaving it would leave
\* auto_assign_courier too, and the request's unit of work would be
\* abandoned with nothing written.
AutoAssignEmail(order_id, customer_email, mail_send) ==
    /\ \E candidates \in QueryResultsFor(order_id) :
       \E a \in {auto_assign_courier(order_id, candidates)} :
       \E attempted \in {a.ret.success /\ customer_email} :
       \E e \in {IF attempted THEN send_courier_assigned(mail_send)
                 ELSE [raised |-> None, ret |-> None]} :
         IF e.raised # None
         THEN /\ orders' = orders
              /\ notifications' = notifications
              /\ last' = [email_attempted |-> attempted, mail_send |-> mail_send,
                          email |-> e.ret]
                         @@ Last("auto_assign", order_id, StatusOf(order_id), "",
                                 candidates, FALSE, None, <<<<Val(e.raised)>>>>, None)
         ELSE /\ orders' = a.orders
              /\ notifications' = a.notifications
              /\ last' = [email_attempted |-> attempted,
                          mail_send |-> IF attempted THEN mail_send ELSE "",
                          email |-> e.ret]
                         @@ Last("auto_assign", order_id, StatusOf(order_id), "",
                                 candidates, a.ret.success, None,
                                 IF a.ret.success THEN << >> ELSE <<a.ret.message>>,
                                 a.ret.courier_id)
    /\ UNCHANGED <<couriers, payments, audit, calls>>

NextEmail ==
    \/ \E u \in Customers, lat \in LifePickups : CreateOrder(u, lat)
    \/ \E o \in OrderIds, data \in StatusData : UpdateStatus(o, data)
    \/ \E o \in 1..(Len(orders) + 1), customer_email \in BOOLEAN,
          mail_send \in MailOutcomes :
          AutoAssignEmail(o, customer_email, mail_send)

SpecEmail == Init /\ [][NextEmail]_vars

----------------------------------------------------------------------------
(* Payments and the reconciliation of gateway callbacks (under SpecPay) *)

TerminalPayment == {"PAID", "FAILED", "CANCELLED", "TIMEOUT"}

\* the CheckoutRequestID the gateway issues for payment p
CheckoutId(p) == JStr(ToString(p))

\* a payments row
Payment(order_id, payment_status, checkout_request_id) ==
    [order_id |-> order_id, payment_status |-> payment_status,
     checkout_request_id |-> checkout_request_id,
     mpesa_receipt_number |-> JNull, paid_at |-> JNull]

NoAudit ==
    [callbacks |-> 0, first |-> None, first_returned |-> None,
     last_payload |-> None, last_returned |-> None,
     triggers |-> 0, paid |-> 0, assigned |-> 0]

PaymentsOf(order_id) == {p \in 1..Len(payments) : payments[p].order_id = order_id}

\* initiate: the payment of an order that has none; PROCESSING with the
\* gateway's ids when the gateway acknowledged the request, else FAILED
InitiatePayment(order_id, acknowledged) ==
    /\ order_id \in 1..Len(orders)
    /\ PaymentsOf(order_id) = {}
    /\ payments' = Append(payments,
                     IF acknowledged
                     THEN Payment(order_id, "PROCESSING", CheckoutId(Len(payments) + 1))
                     ELSE Payment(order_id, "FAILED", JNull))
    /\ audit' = Append(audit, NoAudit)
    /\ last' = Last("initiate", order_id, StatusOf(order_id), "", << >>,
                    acknowledged, None, << >>, None)
    /\ UNCHANGED <<orders, couriers, notifications, calls>>

\* a callback of the gateway for the checkout id, with the result code and
\* the metadata items given
Callback(checkout_request_id, result_code, items) ==
    JDict([Body |-> JDict([stkCallback |-> JDict(
        [MerchantRequestID |-> JStr("m"),
         CheckoutRequestID |-> checkout_request_id,
         ResultCode |-> result_code,
         ResultDesc |-> JStr("desc"),
         CallbackMetadata |-> JDict([Item |-> JList(items)])])])])

Item(name, value) == JDict([Name |-> JStr(name), Value |-> value])

PaidItems ==
    <<Item("Amount", JInt(250)), Item("MpesaReceiptNumber", JStr("LIO123456789")),
      Item("TransactionDate", JInt(20260211)), Item("PhoneNumber", JInt(700123456))>>

\* the callbacks delivered, by name: for each payment, paid with and without
\* metadata and cancelled by the user; one for an unknown checkout id; one
\* without a Body
Deliveries ==
    ({"paid", "paid_no_metadata", "cancelled"} \X (1..AssignOrders))
    \cup {<<"unknown", 0>>, <<"no_body", 0>>}

CallbackData(delivery) ==
    CASE delivery[1] = "paid" -> Callback(CheckoutId(delivery[2]), JInt(0), PaidItems)
      [] delivery[1] = "paid_no_metadata" -> Callback(CheckoutId(delivery[2]), JInt(0), << >>)
      [] delivery[1] = "cancelled" -> Callback(CheckoutId(delivery[2]), JInt(1032), << >>)
      [] delivery[1] = "unknown" -> Callback(JStr("unknown"), JInt(0), PaidItems)
      [] delivery[1] = "no_body" -> EmptyDict

\* parse_callback of every callback delivered, computed once
Parsed == [d \in Deliveries |-> parse_callback(CallbackData(d))]

\* what reconcile returns for a payment: its terminal result
TerminalResult(payment) ==
    [success |-> TRUE, payment_status |-> payment.payment_status,
     mpesa_receipt_number |-> payment.mpesa_receipt_number,
     paid_at |-> payment.paid_at]

\* the payments with the checkout_request_id of a parsed callback
find_payment(parsed) ==
    LET key == IF "checkout_request_id" \in DOMAIN parsed
               THEN parsed.checkout_request_id ELSE JNull
    IN {p \in 1..Len(payments) :
           key # JNull /\ payments[p].checkout_request_id = key}

\* reconcile: the callback is parsed and matched to its payment by
\* checkout_request_id.  A payment already terminal is left as it is.
\* Otherwise a successful callback makes it PAID, stores receipt number and
\* date, triggers auto-assignment of its order and adds the payment
\* confirmation; a failed one makes it FAILED.
\* (delivery names the callback among those the gateway delivers; its
\* data is CallbackData(delivery).)
Reconcile(delivery) ==
    \E parsed \in {Parsed[delivery]} :
    \E found \in {find_payment(Parsed[delivery])} :
    IF found = {}
    THEN /\ last' = Last("callback", 0, "", "", << >>, FALSE, None,
                         << <<"Payment not found">> >>, None)
         /\ UNCHANGED <<orders, couriers, notifications, payments, audit, calls>>
    ELSE
      \E p \in {CHOOSE q \in found : TRUE} :
      \E payment \in {payments[p]}, order_id \in {payments[p].order_id} :
      LET seen(returned, triggers, paid, assigned) ==
              [audit EXCEPT ![p] =
                  [callbacks |-> @.callbacks + 1,
                   first |-> IF @.callbacks = 0 THEN Some(delivery) ELSE @.first,
                   first_returned |-> IF @.callbacks = 0 THEN Some(returned)
                                      ELSE @.first_returned,
                   last_payload |-> Some(delivery),
                   last_returned |-> Some(returned),
                   triggers |-> @.triggers + triggers,
                   paid |-> @.paid + paid,
                   assigned |-> @.assigned + assigned]]
      IN
      /\ audit[p].callbacks < MaxCallbacks
      /\ IF payment.payment_status \in TerminalPayment
         THEN /\ audit' = seen(TerminalResult(payment), 0, 0, 0)
              /\ last' = Last("callback", order_id, StatusOf(order_id), "", << >>,
                              TRUE, None, << >>, None)
              /\ UNCHANGED <<orders, notifications, payments>>
         ELSE IF parsed.success
         THEN \E candidates \in QueryResultsFor(order_id) :
              \E a \in {auto_assign_courier(order_id, candidates)} :
              LET paid == [payment EXCEPT
                              !.payment_status = "PAID",
                              !.mpesa_receipt_number =
                                  IF "receipt_number" \in DOMAIN parsed
                                  THEN parsed.receipt_number ELSE JNull,
                              !.paid_at =
                                  IF "transaction_date" \in DOMAIN parsed
                                  THEN parsed.transaction_date ELSE JNull]
              IN /\ payments' = [payments EXCEPT ![p] = paid]
                 /\ orders' = a.orders
                 /\ notifications' = Append(a.notifications,
                        Notification(orders[order_id].user_id, order_id, "PAYMENT_CONFIRMED"))
                 /\ audit' = seen(TerminalResult(paid), 1, 1,
                                  IF a.ret.success THEN 1 ELSE 0)
                 /\ last' = Last("callback", order_id, StatusOf(order_id), "", candidates,
                                 TRUE, None,
                                 IF a.ret.success THEN << >> ELSE <<a.ret.message>>,
                                 a.ret.courier_id)
         ELSE LET failed == [payment EXCEPT !.payment_status = "FAILED"]
              IN /\ payments' = [payments EXCEPT ![p] = failed]
                 /\ audit' = seen(TerminalResult(failed), 0, 0, 0)
                 /\ last' = Last("callback", order_id, StatusOf(order_id), "", << >>,
                                 TRUE, None, << >>, None)
                 /\ UNCHANGED <<orders, notifications>>
      /\ UNCHANGED <<couriers, calls>>

\* what a status poll may meet: a RequestException, or the gateway's answer
\* for a transaction that succeeded or was cancelled by the user
PollResponses ==
    {None, Some(QueryResponse(Some(JInt(0)))), Some(QueryResponse(Some(JInt(1032))))}

\* a poll that completes the payment when the gateway says completed
QueryStatusReconciling(p, access_token, response) ==
    /\ p \in 1..Len(payments)
    /\ \E polled \in {query_stk_status(access_token, response)} :
          /\ payments' = IF polled.success
                         THEN [payments EXCEPT ![p].payment_status =
                                 IF polled.status = "completed" THEN "PAID" ELSE "FAILED"]
                         ELSE payments
          /\ last' = Last("query_status", payments[p].order_id,
                          StatusOf(payments[p].order_id), "", << >>, polled.success,
                          IF polled.success THEN Some(polled.status) ELSE None,
                          IF polled.success THEN << >> ELSE <<polled.error>>, None)
    /\ UNCHANGED <<orders, couriers, notifications, audit, calls>>

\* a status poll of payment p: query_stk_status reads and writes no table;
\* the status it returned is recorded as new_status
QueryStatus(p, access_token, response) ==
    /\ p \in 1..Len(payments)
    /\ \E polled \in {query_stk_status(access_token, response)} :
          last' = Last("query_status", payments[p].order_id,
                       StatusOf(payments[p].order_id), "", << >>, polled.success,
                       IF polled.success THEN Some(polled.status) ELSE None,
                       IF polled.success THEN << >> ELSE <<polled.error>>, None)
    /\ UNCHANGED <<orders, couriers, notifications, payments, audit, calls>>

\* the courier tables of the payment runs: every courier eligible, or none
PayTables ==
    {[c \in CourierIds |-> CHOOSE row \in LifeRows(c) : TRUE],
     [c \in CourierIds |-> CourierProfile(c, FALSE, TRUE, Some(-1259), Some(Meridian))]}

InitPay == InitWith(PayTables)

NextPay ==
    \/ \E u \in Customers, lat \in LifePickups :
          Len(orders) < AssignOrders /\ CreateOrder(u, lat)
    \/ \E o \in 1..AssignOrders, ack \in BOOLEAN : InitiatePayment(o, ack)
    \/ \E d \in Deliveries : Reconcile(d)
    \/ \E o \in 1..AssignOrders : AutoAssign(o)

\* payments and their callbacks, with auto-assignment
SpecPay == InitPay /\ [][NextPay]_vars

NextPoll ==
    \/ \E u \in Customers, lat \in LifePickups :
          Len(orders) < AssignOrders /\ CreateOrder(u, lat)
    \/ \E o \in 1..AssignOrders, ack \in BOOLEAN : InitiatePayment(o, ack)
    \/ \E d \in Deliveries : Reconcile(d)
    \/ \E p \in 1..AssignOrders, access_token \in BOOLEAN, response \in PollResponses :
          QueryStatus(p, access_token, response)

\* payments, their callbacks and their status polls
SpecPoll == InitPay /\ [][NextPoll]_vars

----------------------------------------------------------------------------
(* parse_callback on the callbacks of the gateway (under SpecParse) *)

\* the result codes of the gateway: success, insufficient balance, cancelled
\* by the user, timed out, wrong PIN, and one code that has no meaning listed
ResultCodes == {0, 1, 1032, 1037, 2001, 17}

\* a result code as the JSON carries it: an integer, its decimal string, or
\* false; None when the key is missing
CodeChoices ==
    {None} \cup {Some(JInt(n)) : n \in ResultCodes}
           \cup {Some(JStr(ToString(n))) : n \in ResultCodes}
           \cup {Some(JBool(FALSE))}

\* the items of PaidItems whose index is in S, in their order
ItemsAt(S) ==
    LET F[i \in 0..Len(PaidItems)] ==
            IF i = 0 THEN << >>
            ELSE IF i \in S THEN Append(F[i - 1], PaidItems[i]) ELSE F[i - 1]
    IN F[Len(PaidItems)]

\* the metadata a callback carries: none, or a list of some of the items
MetadataChoices ==
    {None} \cup {Some(ItemsAt(S)) : S \in SUBSET (1..Len(PaidItems))}

\* the callback with the result code and the metadata given
GatewayCallback(code, metadata) ==
    LET base == [MerchantRequestID |-> JStr("m"),
                 CheckoutRequestID |-> JStr("1"),
                 ResultDesc |-> JStr("desc")]
        coded == IF code = None THEN base ELSE put(base, "ResultCode", Val(code))
        full == IF metadata = None THEN coded
                ELSE put(coded, "CallbackMetadata",
                         JDict([Item |-> JList(Val(metadata))]))
    IN JDict([Body |-> JDict([stkCallback |-> JDict(full)])])

\* a callback arrives
Receive(code, metadata) ==
    /\ last' = [op |-> "receive", code |-> code, metadata |-> metadata,
                data |-> GatewayCallback(code, metadata)]
    /\ UNCHANGED <<orders, couriers, notifications, payments, audit, calls>>

\* parse_callback is applied to the callback that arrived
Parse ==
    /\ last.op = "receive"
    /\ last' = [op |-> "parse_callback", code |-> last.code,
                metadata |-> last.metadata, data |-> last.data,
                result |-> parse_callback(last.data)]
    /\ UNCHANGED <<orders, couriers, notifications, payments, audit, calls>>

\* the status of the transaction whose callback was parsed is polled
Query ==
    /\ last.op = "parse_callback"
    /\ last' = [op |-> "query_stk_status", code |-> last.code,
                metadata |-> last.metadata, data |-> last.data,
                result |-> last.result,
                polled |-> query_stk_status(TRUE, Some(QueryResponse(last.code)))]
    /\ UNCHANGED <<orders, couriers, notifications, payments, audit, calls>>

NextParse ==
    \/ \E code \in CodeChoices, metadata \in MetadataChoices : Receive(code, metadata)
    \/ Parse
    \/ Query

SpecParse == Init /\ [][NextParse]_vars

\* the last step parsed a callback whose result code is an integer
ParsedIntCode ==
    /\ last.op = "parse_callback"
    /\ last.code # None
    /\ Val(last.code).t = "int"

\* the callback parsed carries the item of PaidItems at index i
Carries(i) ==
    /\ last.metadata # None
    /\ \E j \in 1..Len(Val(last.metadata)) : Val(last.metadata)[j] = PaidItems[i]

MetadataFields == {"amount", "receipt_number", "transaction_date", "phone_number"}

\* C15: a callback whose result code is the integer 0 is parsed as the
\* completed outcome, with amount and receipt number the values of the items
\* Amount and MpesaReceiptNumber, and transaction date and phone number the
\* values of TransactionDate and PhoneNumber as strings; a callback with any
\* other integer code is parsed as the failed outcome, with the gateway's
\* result description and none of the four fields.
C15_CodeZeroCompleted ==
    ParsedIntCode =>
        IF Val(last.code).v = 0
        THEN /\ last.result.success = TRUE
             /\ last.result.status = "completed"
             /\ Carries(1) => last.result.amount = JInt(250)
             /\ Carries(2) => last.result.receipt_number = JStr("LIO123456789")
             /\ Carries(3) => last.result.transaction_date = JStr("20260211")
             /\ Carries(4) => last.result.phone_number = JStr("700123456")
        ELSE /\ last.result.success = FALSE
             /\ last.result.status = "failed"
             /\ last.result.result_description = JStr("desc")
             /\ DOMAIN last.result \cap MetadataFields = {}

\* a cancelled callback (1032) that carries all four items was parsed
C15_Witness ==
    /\ ParsedIntCode
    /\ Val(last.code).v = 1032
    /\ \A i \in 1..Len(PaidItems) : Carries(i)
    /\ last.result.status = "failed"

\* the parsed result holds a value, not None, under the key
Yields(key) == key \in DOMAIN last.result /\ last.result[key] # JNull

\* C16: the result of parsing a callback holds a receipt number and a
\* transaction date exactly when it is the successful outcome, whatever
\* items the callback's metadata holds.
C16_ReceiptIffPaid ==
    ParsedIntCode =>
        /\ last.result.success = TRUE
              => (Yields("receipt_number") /\ Yields("transaction_date"))
        /\ last.result.success = FALSE
              => (~Yields("receipt_number") /\ ~Yields("transaction_date"))

\* C17: for every result code, carried as an integer or as a string or
\* missing, the status poll and the parsing of the callback give the same
\* status.
C17_PollAgreesWithCallback ==
    (/\ last.op = "query_stk_status"
     /\ (last.code = None \/ Val(last.code).t \in {"int", "str"}))
        => last.polled.status = last.result.status

----------------------------------------------------------------------------
(* parse_callback on arbitrary payloads (under SpecPayload) *)

\* what may stand where CallbackMetadata is expected: nothing, null, a dict
\* without Item, or a dict whose Item is null, a number, a str, a dict, or
\* a list of items, of strs, or of dicts without Name and Value
MetadataShapes ==
    {None, Some(JNull), Some(EmptyDict)}
    \cup {Some(JDict([Item |-> item])) :
            item \in {JNull, JInt(3), JStr(""), JStr("abc"), EmptyDict,
                      JDict([Name |-> JStr("Amount")]), EmptyList,
                      JList(PaidItems), JList(<<JStr("Amount")>>),
                      JList(<<EmptyDict>>), JList(<<PaidItems[2], JNull>>)}}

\* what may stand where stkCallback is expected
StkCallbackShapes ==
    {JNull, JStr("x"), EmptyList, EmptyDict}
    \cup {JDict(IF metadata = None
                THEN [ResultCode |-> code]
                ELSE [ResultCode |-> code, CallbackMetadata |-> Val(metadata)]) :
            code \in {JInt(0), JInt(1), JInt(1032), JStr("0"), JStr(""), JNull,
                      JBool(FALSE), JBool(TRUE), EmptyList},
            metadata \in MetadataShapes}
    \cup {JDict([CallbackMetadata |-> Val(metadata)]) :
            metadata \in MetadataShapes \ {None}}

\* payloads: values that are no mapping, mappings without Body or with a
\* Body that is no mapping, and Bodies with or without stkCallback
Payloads ==
    {JNull, JStr("x"), JInt(7), EmptyList, EmptyDict,
     JDict([Body |-> JNull]), JDict([Body |-> JStr("x")]),
     JDict([Body |-> EmptyList]), JDict([Body |-> EmptyDict])}
    \cup {JDict([Body |-> JDict([stkCallback |-> c])]) : c \in StkCallbackShapes}

\* a payload arrives at the callback endpoint
ReceivePayload(data) ==
    /\ last' = [op |-> "receive", data |-> data]
    /\ UNCHANGED <<orders, couriers, notifications, payments, audit, calls>>

\* parse_callback is applied to the payload that arrived
ParsePayload ==
    /\ last.op = "receive"
    /\ last' = [op |-> "parse_callback", data |-> last.data,
                result |-> parse_callback(last.data)]
    /\ UNCHANGED <<orders, couriers, notifications, payments, audit, calls>>

NextPayload ==
    \/ \E data \in Payloads : ReceivePayload(data)
    \/ ParsePayload

SpecPayload == Init /\ [][NextPayload]_vars

\* the value under key at the end of a path of keys into the payload, JNull
\* where the path leaves the mappings
RECURSIVE ValueAt(_, _)
ValueAt(data, path) ==
    IF Len(path) = 0 THEN data
    ELSE IF IsDict(data) /\ Head(path) \in DOMAIN data.v
    THEN ValueAt(data.v[Head(path)], Tail(path))
    ELSE JNull

PayloadResultCode == ValueAt(last.data, <<"Body", "stkCallback", "ResultCode">>)

\* C30: parse_callback returns a result with a success flag for every
\* payload; the flag is false for a payload that is no mapping or whose Body
\* or stkCallback is missing or no mapping, and it is true only for a
\* payload whose ResultCode is exactly the integer 0.
C30_TotalOnlyIntZeroSucceeds ==
    last.op = "parse_callback" =>
        /\ "success" \in DOMAIN last.result
        /\ last.result.success \in BOOLEAN
        /\ ~IsDict(ValueAt(last.data, <<"Body", "stkCallback">>))
              => last.result.success = FALSE
        /\ last.result.success = TRUE => PayloadResultCode = JInt(0)

----------------------------------------------------------------------------
(* initiate_stk_push on the answers of the gateway (under SpecStk) *)

\* a JSON object with the keys of fields whose value is not None
Object(fields) ==
    JDict([k \in {key \in DOMAIN fields : fields[key] # None} |-> Val(fields[k])])

\* the answers of the gateway to a push request: a response code "0", "1",
\* the integer 0 or none, with or without the two request ids, an error
\* message (possibly empty), a response description and an error code; an
\* acknowledgement (response code "0") carries the two ids
StkAnswers ==
    {a \in [code : {None, Some(JStr("0")), Some(JStr("1")), Some(JInt(0))},
            ids : {None, Some(JStr("ws_CO_1"))},
            message : {None, Some(JStr("Bad Request")), Some(JStr(""))},
            description : {None, Some(JStr("desc"))},
            error_code : {None, Some(JStr("400.002.02"))}] :
        a.code = Some(JStr("0")) => a.ids # None}

StkResponses ==
    {Object([ResponseCode |-> a.code, CheckoutRequestID |-> a.ids,
             MerchantRequestID |-> a.ids, errorMessage |-> a.message,
             ResponseDescription |-> a.description, errorCode |-> a.error_code]) :
        a \in StkAnswers}

\* a payment is to be initiated: the token request and the push request
\* will meet the outcomes given
StkRequest(access_token, response) ==
    /\ last' = [op |-> "stk_request", access_token |-> access_token,
                response |-> response]
    /\ UNCHANGED <<orders, couriers, notifications, payments, audit, calls>>

\* initiate_stk_push runs
StkPush ==
    /\ last.op = "stk_request"
    /\ \E out \in {initiate_stk_push(last.access_token, last.response)} :
          last' = [op |-> "initiate_stk_push", access_token |-> last.access_token,
                   response |-> last.response, ret |-> out.ret, posts |-> out.posts]
    /\ UNCHANGED <<orders, couriers, notifications, payments, audit, calls>>

NextStk ==
    \/ \E access_token \in BOOLEAN,
          response \in {None} \cup {Some(res) : res \in StkResponses} :
          StkRequest(access_token, response)
    \/ StkPush

SpecStk == Init /\ [][NextStk]_vars

\* the gateway answered the push request with response code "0"
Acknowledged ==
    /\ last.access_token
    /\ last.response # None
    /\ "ResponseCode" \in DOMAIN Val(last.response).v
    /\ Val(last.response).v.ResponseCode = JStr("0")

\* the key of the gateway's answer, None when it is missing
Answered(key) ==
    IF key \in DOMAIN Val(last.response).v THEN Val(last.response).v[key] ELSE JNull

\* C19: initiate_stk_push returns success only when the gateway answered
\* with response code "0", and then returns the checkout_request_id and the
\* merchant_request_id of the answer; without a token it returns the
\* authentication failure and posts nothing; on a RequestException it returns
\* the exception's message; on any other answer it returns the answer's
\* error message, or else its response description; and it posts at most
\* one push request.
C19_SuccessOnlyWhenAcknowledged ==
    last.op = "initiate_stk_push" =>
        /\ last.posts <= 1
        /\ last.ret.success <=> Acknowledged
        /\ last.ret.success =>
              /\ last.ret.checkout_request_id = JStr("ws_CO_1")
              /\ last.ret.merchant_request_id = JStr("ws_CO_1")
        /\ ~last.access_token =>
              /\ last.posts = 0
              /\ last.ret.error = JStr("Failed to authenticate with M-Pesa")
        /\ (last.access_token /\ last.response = None) =>
              last.ret.error = JStr("exception")
        /\ (last.access_token /\ last.response # None /\ ~Acknowledged) =>
              last.ret.error =
                  IF Answered("errorMessage") \notin {JNull, JStr("")}
                  THEN Answered("errorMessage")
                  ELSE Answered("ResponseDescription")

\* the gateway rejected the push request with an error message and a
\* response description: the failure carries the error message
C19_Witness ==
    /\ last.op = "initiate_stk_push"
    /\ last.access_token /\ last.response # None
    /\ Answered("ResponseCode") = JStr("1")
    /\ Answered("errorMessage") = JStr("Bad Request")
    /\ Answered("ResponseDescription") = JStr("desc")
    /\ ~last.ret.success
    /\ last.ret.error = JStr("Bad Request")
    /\ last.posts = 1

----------------------------------------------------------------------------
(* Price quotations (under SpecPrice) *)

\* 0, 1, 2, 2.1, 8.5 and 20 km
Distances == {0, 10, 20, 21, 85, 200}
\* 0, 1.2, 5, 5.1, 12.5 and 35 kg
Weights == {0, 12, 50, 51, 125, 350}

\* a quotation is computed
Quote(distance_km, weight_kg, is_fragile, needs_insurance, is_express, is_weekend, is_weekend_delivery) ==
    /\ last' = [op |-> "calculate_price_breakdown",
                distance_km |-> distance_km, weight_kg |-> weight_kg,
                is_fragile |-> is_fragile, needs_insurance |-> needs_insurance,
                is_express |-> is_express, is_weekend |-> is_weekend,
                is_weekend_delivery |-> is_weekend_delivery,
                breakdown |-> calculate_price_breakdown(
                                  distance_km, weight_kg, is_fragile, needs_insurance,
                                  is_express, is_weekend, is_weekend_delivery)]
    /\ UNCHANGED <<orders, couriers, notifications, payments, audit, calls>>

NextPrice ==
    \E distance_km \in Distances, weight_kg \in Weights,
       is_fragile \in BOOLEAN, needs_insurance \in BOOLEAN, is_express \in BOOLEAN,
       is_weekend \in {None, Some(TRUE), Some(FALSE)}, is_weekend_delivery \in BOOLEAN :
        Quote(distance_km, weight_kg, is_fragile, needs_insurance, is_express,
              is_weekend, is_weekend_delivery)

SpecPrice == Init /\ [][NextPrice]_vars

\* the last step quoted a price without express and with is_weekend false
QuotedPlain ==
    /\ last.op = "calculate_price_breakdown"
    /\ ~last.is_express
    /\ last.is_weekend = Some(FALSE)

\* C20: without express and with is_weekend false, the distance price is
\* 150 up to 2 km and 150 + 30 per km beyond 2 km above that, the weight
\* price is 0 up to 5 kg and 10 per kg beyond 5 kg above that, and the total
\* is their sum plus 50 if fragile plus 100 if insured; 8.5 km, 1.2 kg,
\* fragile only gives 395.
C20_MatchesReferenceFormula ==
    QuotedPlain =>
        /\ last.breakdown.distance_price =
              IF last.distance_km <= 20 THEN 1500
              ELSE 1500 + (last.distance_km - 20) * 30
        /\ last.breakdown.weight_price =
              IF last.weight_kg <= 50 THEN 0 ELSE (last.weight_kg - 50) * 10
        /\ last.breakdown.total_price =
              last.breakdown.distance_price + last.breakdown.weight_price
              + (IF last.is_fragile THEN 500 ELSE 0)
              + (IF last.needs_insurance THEN 1000 ELSE 0)
        /\ (/\ last.distance_km = 85 /\ last.weight_kg = 12
            /\ last.is_fragile /\ ~last.needs_insurance)
              => last.breakdown.total_price = 3950

\* the quotation of the example: 8.5 km, 1.2 kg, fragile only
C20_Witness ==
    /\ QuotedPlain
    /\ last.distance_km = 85 /\ last.weight_kg = 12
    /\ last.is_fragile /\ ~last.needs_insurance
    /\ last.breakdown.distance_price = 3450
    /\ last.breakdown.total_price = 3950

\* the weekend flag a quotation was computed with
QuotedWeekend ==
    IF last.is_weekend = None THEN last.is_weekend_delivery ELSE Val(last.is_weekend)

\* the last step computed a quotation
Quoted == last.op = "calculate_price_breakdown"

\* C21: the weekend and the express surcharge are both taken from the
\* subtotal before surcharges and added: the total is the subtotal plus 20%
\* of it on a weekend plus 50% of it for express, so 170% of the subtotal
\* (never 180%) with both.
C21_SurchargesAdditive ==
    Quoted =>
        LET b == last.breakdown
            subtotal == b.subtotal_before_multipliers
        IN /\ b.weekend_surcharge * 100 = IF QuotedWeekend THEN 20 * subtotal ELSE 0
           /\ b.express_surcharge * 100 = IF last.is_express THEN 50 * subtotal ELSE 0
           /\ b.total_price = subtotal + b.weekend_surcharge + b.express_surcharge
           /\ (QuotedWeekend /\ last.is_express)
                 => /\ b.total_price * 100 = 170 * subtotal
                    /\ b.total_price * 100 # 180 * subtotal

\* a weekend express quotation: 8.5 km, 12.5 kg, fragile and insured has
\* subtotal 495 and total 841.50
C21_Witness ==
    /\ Quoted
    /\ last.is_weekend = Some(TRUE) /\ last.is_express
    /\ last.distance_km = 85 /\ last.weight_kg = 125
    /\ last.is_fragile /\ last.needs_insurance
    /\ last.breakdown.subtotal_before_multipliers = 5700
    /\ last.breakdown.total_price = 9690

----------------------------------------------------------------------------
(* Order summaries, input validation and delivery estimates (under
   SpecSummary) *)

\* -1, 0, 1, 8.2, 8.5 and 21.4 km; on these the float arithmetic of
\* calculate_estimated_delivery_time gives the exact value
SummaryDistances == {-10, 0, 10, 82, 85, 214}
\* -0.5, 0, 1.2, 100 and 100.1 kg
SummaryWeights == {-5, 0, 12, 1000, 1001}

\* a request body with the keys of fields whose value is not None
Body(fields) ==
    [k \in {key \in DOMAIN fields : fields[key] # None} |-> Val(fields[k])]

\* order data: weight_kg left out, null or a number, and each flag left out
\* or given
OrderData ==
    {Body([weight_kg |-> w, fragile |-> f, insurance_required |-> i,
           is_express |-> e, is_weekend |-> k]) :
        w \in {None, Some(None)} \cup {Some(Some(n)) : n \in SummaryWeights},
        f \in {None, Some(TRUE)}, i \in {None, Some(TRUE)},
        e \in {None, Some(TRUE), Some(FALSE)}, k \in {None, Some(TRUE)}}

\* what the maps service returned: with or without a distance
DistanceResults ==
    {Body([distance_km |-> d]) : d \in {None} \cup {Some(n) : n \in SummaryDistances}}

ValidatePriceInput(distance_km, weight_kg) ==
    /\ last' = [op |-> "validate_price_input",
                distance_km |-> distance_km, weight_kg |-> weight_kg,
                ret |-> validate_price_input(distance_km, weight_kg)]
    /\ UNCHANGED <<orders, couriers, notifications, payments, audit, calls>>

EstimateTime(distance_km, is_express) ==
    /\ last' = [op |-> "calculate_estimated_delivery_time",
                distance_km |-> distance_km, is_express |-> is_express,
                ret |-> calculate_estimated_delivery_time(distance_km, is_express)]
    /\ UNCHANGED <<orders, couriers, notifications, payments, audit, calls>>

CreateOrderSummary(order_data, distance_result) ==
    /\ last' = [op |-> "create_order_summary",
                order_data |-> order_data, distance_result |-> distance_result,
                out |-> create_order_summary(order_data, distance_result)]
    /\ UNCHANGED <<orders, couriers, notifications, payments, audit, calls>>

NextSummary ==
    \/ \E distance_km \in SummaryDistances, weight_kg \in SummaryWeights :
          ValidatePriceInput(distance_km, weight_kg)
    \/ \E distance_km \in SummaryDistances, is_express \in BOOLEAN :
          EstimateTime(distance_km, is_express)
    \/ \E order_data \in OrderData, distance_result \in DistanceResults :
          CreateOrderSummary(order_data, distance_result)

SpecSummary == Init /\ [][NextSummary]_vars

\* the last step made a summary of order data that carried a numeric weight
Summarised ==
    /\ last.op = "create_order_summary"
    /\ "weight_kg" \in DOMAIN last.order_data
    /\ last.order_data.weight_kg # None

\* the distance and the weight the summary was asked to price
SummaryDistance == dget(last.distance_result, "distance_km", 0)
SummaryWeight == Val(last.order_data.weight_kg)

\* C22: a quotation whose distance is <= 0, or whose weight is <= 0 or above
\* 100 kg, fails and produces no price; validate_price_input reports such an
\* input with an error message.
C22_InvalidInputNeverPriced ==
    /\ Summarised =>
          ((SummaryDistance <= 0 \/ SummaryWeight <= 0 \/ SummaryWeight > 1000)
              => last.out.ret = None)
    /\ last.op = "validate_price_input" =>
          ((last.distance_km <= 0 \/ last.weight_kg <= 0 \/ last.weight_kg > 1000)
              => (~last.ret.is_valid /\ last.ret.error_message # None))

\* C26: the estimated minutes are max(30, ceiling(15 + (distance_km / 30) *
\* 60 * (0.7 if express else 1.0))): rounded up whenever the raw value is
\* fractional.  With the distance in tenths of a km the raw value is
\* (750 + distance * (7 or 10)) / 50.
C26_EstimateRoundedUp ==
    last.op = "calculate_estimated_delivery_time" =>
        LET raw_50 == 750 + last.distance_km * (IF last.is_express THEN 7 ELSE 10)
            ceiling == IF raw_50 % 50 = 0 THEN raw_50 \div 50 ELSE raw_50 \div 50 + 1
        IN last.ret = max(30, ceiling)

----------------------------------------------------------------------------
(* Validation requests (under SpecValidate): a request arrives with its
   data and one of the three validators is applied to it *)

MoiAvenue == Text(<<"M", "o", "i", " ", "A", "v", "e", "n", "u", "e">>)
Westlands == Text(<<" ", "W", "e", "s", "t", "l", "a", "n", "d", "s", " ">>)
ShortAddress == Text(<<"C", "B", "D">>)
BlankAddress == Text(<<" ", " ">>)
LongAddress == Text([i \in 1..501 |-> "x"])

Phone07 == Text(<<"0", "7", "1", "2", "3", "4", "5", "6", "7", "8">>)
PhonePlus == Text(<<"+", "2", "5", "4", "7", "1", "2", "3", "4", "5", "6", "7", "8">>)
PhoneBad == Text(<<"1", "2", "3", "4", "5">>)

Books == Text(<<"B", "o", "o", "k", "s">>)
TooShort == Text(<<" ", "a", "b", " ">>)
Dimensions3 == Text(<<"3", "0", "x", "2", "0", ".", "5", "x", "1", "5">>)
Dimensions2 == Text(<<"3", "0", "x", "2", "0">>)

MinusOne == Text(<<"-", "1">>)
NotANumber == Text(<<"a", "b", "c">>)

\* a valid request to create an order
BaseOrder ==
    [pickup_lat |-> JInt(-1), pickup_lng |-> JInt(36), pickup_address |-> MoiAvenue,
     destination_lat |-> JInt(-1), destination_lng |-> JInt(37),
     destination_address |-> Westlands, weight_kg |-> JInt(5)]

\* base with the given fields set (Some) or left out (None)
Override(base, fields) ==
    [k \in {key \in DOMAIN base \cup DOMAIN fields :
               key \in DOMAIN fields => fields[key] # None} |->
        IF k \in DOMAIN fields THEN Val(fields[k]) ELSE base[k]]

RequestPickupLats == {None, Some(JInt(0)), Some(JInt(-1)), Some(JInt(-90)), Some(JInt(91)),
               Some(MinusOne), Some(NotANumber)}
RequestPickupLngs == {Some(JInt(36)), Some(JInt(37)), Some(JInt(0)), Some(JInt(181)),
               Some(JInt(-180))}
RequestDestinationLats == {Some(JInt(-1)), Some(JInt(0)), Some(JInt(90)), Some(JInt(-91)),
                    Some(JNull)}
RequestDestinationLngs == {Some(JInt(37)), Some(JInt(0)), Some(JInt(180)), Some(JInt(-181))}

\* the base request with every combination of coordinates, of addresses
\* and weight, and of the optional fields
CreateOrderData ==
    {Override(BaseOrder, [pickup_lat |-> a, pickup_lng |-> b,
                          destination_lat |-> c, destination_lng |-> d]) :
        a \in RequestPickupLats, b \in RequestPickupLngs,
        c \in RequestDestinationLats, d \in RequestDestinationLngs}
    \cup
    {Override(BaseOrder, [pickup_address |-> a, destination_address |-> b,
                          weight_kg |-> w]) :
        a \in {Some(MoiAvenue), Some(ShortAddress)},
        b \in {Some(Westlands), Some(BlankAddress), Some(LongAddress), None},
        w \in {Some(JInt(5)), Some(JInt(0)), Some(JInt(100)), Some(JInt(101)),
               Some(NotANumber)}}
    \cup
    {Override(BaseOrder, [pickup_phone |-> a, destination_phone |-> b,
                          fragile |-> f, parcel_description |-> c,
                          parcel_dimensions |-> d]) :
        a \in {None, Some(Phone07), Some(PhoneBad)},
        b \in {None, Some(PhonePlus)},
        f \in {None, Some(JBool(TRUE))},
        c \in {None, Some(Books), Some(TooShort)},
        d \in {None, Some(Dimensions3), Some(Dimensions2)}}

UpdateDestinationData ==
    {Override([destination_lat |-> JInt(-1), destination_lng |-> JInt(37),
               destination_address |-> Westlands],
              [destination_lat |-> a, destination_lng |-> b,
               destination_address |-> c, destination_phone |-> d]) :
        a \in RequestDestinationLats \cup {None}, b \in RequestDestinationLngs,
        c \in {Some(Westlands), Some(ShortAddress)},
        d \in {None, Some(PhonePlus), Some(PhoneBad)}}

PriceEstimateData ==
    {Override([pickup_lat |-> JInt(-1), pickup_lng |-> JInt(36),
               destination_lat |-> JInt(-1), destination_lng |-> JInt(37),
               weight_kg |-> JInt(5)],
              [pickup_lat |-> a, destination_lng |-> b, weight_kg |-> w,
               is_express |-> e]) :
        a \in RequestPickupLats, b \in RequestDestinationLngs,
        w \in {None, Some(JInt(5)), Some(JInt(0)), Some(JInt(101)), Some(NotANumber)},
        e \in {None, Some(JBool(TRUE))}}

ValidationRequest(validator, data) ==
    [op |-> "request", validator |-> validator, data |-> data]

InitValidate ==
    /\ orders = << >>
    /\ couriers = << >>
    /\ notifications = << >>
    /\ payments = << >>
    /\ audit = << >>
    /\ calls = NoCalls
    /\ last \in {ValidationRequest("validate_create_order", data) :
                    data \in CreateOrderData}
          \cup {ValidationRequest("validate_update_destination", data) :
                    data \in UpdateDestinationData}
          \cup {ValidationRequest("validate_price_estimate", data) :
                    data \in PriceEstimateData}

Validated(ret) ==
    [op |-> last.validator, validator |-> last.validator, data |-> last.data,
     ret |-> ret]

ValidateCreateOrder ==
    /\ last.op = "request" /\ last.validator = "validate_create_order"
    /\ last' = Validated(validate_create_order(last.data))
    /\ UNCHANGED <<orders, couriers, notifications, payments, audit, calls>>

ValidateUpdateDestination(current_status) ==
    /\ last.op = "request" /\ last.validator = "validate_update_destination"
    /\ last' = Validated(validate_update_destination(last.data, current_status))
    /\ UNCHANGED <<orders, couriers, notifications, payments, audit, calls>>

ValidatePriceEstimate ==
    /\ last.op = "request" /\ last.validator = "validate_price_estimate"
    /\ last' = Validated(validate_price_estimate(last.data))
    /\ UNCHANGED <<orders, couriers, notifications, payments, audit, calls>>

NextValidate ==
    \/ ValidateCreateOrder
    \/ \E current_status \in OrderStatus : ValidateUpdateDestination(current_status)
    \/ ValidatePriceEstimate

SpecValidate == InitValidate /\ [][NextValidate]_vars

\* the last step applied validate_create_order and it returned
CreateOrderValidated ==
    last.op = "validate_create_order" /\ last.ret.raised = None

\* the request names the same latitude and the same longitude for pickup and
\* destination
SameCoordinates(data) ==
    /\ {"pickup_lat", "pickup_lng", "destination_lat", "destination_lng"}
          \subseteq DOMAIN data
    /\ float(data["pickup_lat"]) # None
    /\ float(data["pickup_lat"]) = float(data["destination_lat"])
    /\ float(data["pickup_lng"]) # None
    /\ float(data["pickup_lng"]) = float(data["destination_lng"])

\* C23: validate_create_order rejects every request whose pickup coordinates
\* equal its destination coordinates.
C23_SameLocationRejected ==
    (CreateOrderValidated /\ SameCoordinates(last.data)) => ~last.ret.is_valid

CoordinateKeys == {"pickup_lat", "pickup_lng", "destination_lat", "destination_lng"}

\* the request is the valid base request but for its coordinates, which are
\* numbers
OtherwiseValid(data) ==
    /\ DOMAIN data = DOMAIN BaseOrder
    /\ \A key \in DOMAIN data \ CoordinateKeys : data[key] = BaseOrder[key]
    /\ \A key \in CoordinateKeys : data[key].t = "int"

InRangeLat(value) == -90 <= value.v /\ value.v <= 90
InRangeLng(value) == -180 <= value.v /\ value.v <= 180

AllInRange(data) ==
    /\ InRangeLat(data["pickup_lat"]) /\ InRangeLng(data["pickup_lng"])
    /\ InRangeLat(data["destination_lat"]) /\ InRangeLng(data["destination_lng"])

\* C27: validate_create_order accepts every latitude in [-90, 90] and every
\* longitude in [-180, 180], 0 included, and rejects every value outside:
\* an otherwise valid request with distinct pickup and destination is
\* accepted exactly when all four coordinates are in range.
C27_InRangeCoordinatesAccepted ==
    (CreateOrderValidated /\ OtherwiseValid(last.data) /\ ~SameCoordinates(last.data))
        => (last.ret.is_valid <=> AllInRange(last.data))

\* the last step applied one of the three validators and it returned
AnyValidated ==
    /\ last.op \in {"validate_create_order", "validate_update_destination",
                    "validate_price_estimate"}
    /\ last.ret.raised = None

\* C28: each of the three validators returns is_valid = true exactly when
\* the error list is empty; when is_valid is true validated_data is the
\* validated record, and when it is false no record is handed back.
C28_ValidatedDataIffValid ==
    AnyValidated =>
        /\ last.ret.is_valid <=> Len(last.ret.errors) = 0
        /\ last.ret.is_valid <=> last.ret.validated_data # None

----------------------------------------------------------------------------
(* The order lifecycle (under Spec) *)

\* the transition table of the design
TransitionTable ==
    {<<PENDING, ASSIGNED>>, <<PENDING, CANCELLED>>,
     <<ASSIGNED, PICKED_UP>>, <<ASSIGNED, CANCELLED>>,
     <<PICKED_UP, IN_TRANSIT>>, <<PICKED_UP, CANCELLED>>,
     <<IN_TRANSIT, DELIVERED>>}

Terminal == {DELIVERED, CANCELLED}
WithCourier == {ASSIGNED, PICKED_UP, IN_TRANSIT, DELIVERED}

\* the last request was a status update that carried a status
WasStatusUpdate == last.op = "update_status" /\ last.requested # ""
LastTransition == <<last.current, upper(last.requested)>>

\* C1: a status update whose (current, requested) pair is not in the
\* transition table is rejected and leaves the order's status as it was.
C1_UnlistedRejected ==
    (WasStatusUpdate /\ LastTransition \notin TransitionTable)
        => (~last.ok /\ orders[last.order].status = last.current)

\* C2: a status update whose (current, requested) pair is in the transition
\* table, other than PENDING -> ASSIGNED, succeeds and returns the requested
\* status, which the order then has.
C2_ListedAccepted ==
    (WasStatusUpdate /\ LastTransition \in TransitionTable \ {<<PENDING, ASSIGNED>>})
        => /\ last.ok
           /\ last.new_status = Some(upper(last.requested))
           /\ orders[last.order].status = upper(last.requested)

\* C3: an order has a courier exactly when its status is ASSIGNED, PICKED_UP,
\* IN_TRANSIT or DELIVERED.
C3_CourierIffAssigned ==
    \A o \in 1..Len(orders) :
        (orders[o].courier_id # None) <=> (orders[o].status \in WithCourier)

\* C5: no courier is the courier of two orders that are both neither
\* DELIVERED nor CANCELLED.
C5_OneActiveOrderPerCourier ==
    \A o1, o2 \in 1..Len(orders) :
        (/\ o1 # o2
         /\ orders[o1].courier_id # None
         /\ orders[o1].courier_id = orders[o2].courier_id
         /\ orders[o1].status \notin Terminal)
            => orders[o2].status \in Terminal

\* C24: every rejected status update returns an error that names both the
\* order's current status and the requested status, whatever the current
\* status.
C24_RejectionNamesBoth ==
    (WasStatusUpdate /\ ~last.ok) =>
        \E i \in 1..Len(last.errors) :
            /\ last.current \in Elems(last.errors[i])
            /\ upper(last.requested) \in Elems(last.errors[i])

\* how far a status is along the lifecycle
Rank(status) ==
    CASE status = PENDING -> 0
      [] status \in {ASSIGNED, PICKED_UP} -> 1
      [] status = IN_TRANSIT -> 2
      [] status \in {DELIVERED, CANCELLED} -> 3

\* C29: every accepted status update moves the order strictly forward in
\* the ranking PENDING < PICKED_UP < IN_TRANSIT < DELIVERED, CANCELLED, and
\* none is accepted on DELIVERED or CANCELLED: no order returns to a status
\* it held, and from PENDING at most three updates are accepted.
C29_StatusMovesForward ==
    [][(last'.op = "update_status" /\ last'.ok) =>
          /\ orders[last'.order].status \notin Terminal
          /\ Rank(orders'[last'.order].status) > Rank(orders[last'.order].status)
          /\ Rank(orders'[last'.order].status) <= 3]_vars

\* an order without courier was taken from PENDING to DELIVERED by its third
\* accepted update
C29_Witness ==
    /\ last.op = "update_status" /\ last.ok
    /\ last.current = IN_TRANSIT
    /\ orders[last.order].status = DELIVERED
    /\ orders[last.order].courier_id = None

\* C7: no step changes the status or the courier of an order that is
\* DELIVERED or CANCELLED.
C7_TerminalIsFinal ==
    [][\A o \in 1..Len(orders) :
          orders[o].status \in Terminal
              => /\ orders'[o].status = orders[o].status
                 /\ orders'[o].courier_id = orders[o].courier_id]_vars

\* a request for CANCELLED met a DELIVERED order, next to a CANCELLED one
C7_Witness ==
    /\ WasStatusUpdate /\ last.current = DELIVERED
    /\ upper(last.requested) = CANCELLED
    /\ orders[last.order].status = DELIVERED
    /\ \E o \in 1..Len(orders) : orders[o].status = CANCELLED

\* C8: a status update that requests the status the order already has fails,
\* whatever that status is.
C8_SelfTransitionFails ==
    (WasStatusUpdate /\ upper(last.requested) = last.current)
        => (~last.ok /\ last.new_status = None)

C8_Witness ==
    /\ WasStatusUpdate /\ upper(last.requested) = last.current
    /\ last.current = IN_TRANSIT
    /\ ~last.ok

----------------------------------------------------------------------------
(* The choice of the courier (under SpecAssign) *)

\* the last request was an auto-assignment that succeeded
WasAssigned == last.op = "auto_assign" /\ last.ok

\* the profile whose user the last request returned, and the order it named
Chosen == CHOOSE c \in CourierIds : Some(couriers[c].user_id) = last.courier_id
LastOrder == orders[last.order]

\* metres from the profile c, which has a location, to the order's pickup
Dist(c, order) ==
    haversine_distance_km(order.pickup_lat, order.pickup_lng,
                          Val(couriers[c].current_latitude),
                          Val(couriers[c].current_longitude))

\* c is eligible and within the default max_distance_km of the order's pickup
InRange(c, order) ==
    /\ c \in Candidates
    /\ Dist(c, order) <= max_distance_km_default * 1000

\* C9: the courier assigned is eligible and in range, and no eligible
\* in-range courier is strictly closer to the pickup, whatever the order in
\* which the candidate query returned them.
C9_NearestAssigned ==
    WasAssigned =>
        /\ InRange(Chosen, LastOrder)
        /\ \A c \in CourierIds :
              InRange(c, LastOrder) => Dist(Chosen, LastOrder) <= Dist(c, LastOrder)

\* candidates 3 km and 5 km away, the farther one returned first
C9_Witness ==
    /\ WasAssigned
    /\ Dist(Chosen, LastOrder) = 3002
    /\ Len(last.query) > 1
    /\ last.query[1] # Chosen
    /\ Dist(last.query[1], LastOrder) = 5003

\* C10: among the eligible in-range couriers at the minimal distance, the one
\* assigned has the lowest id, whatever the order in which the candidate query
\* returned them.
C10_TieLowestId ==
    WasAssigned =>
        \A c \in CourierIds :
            (InRange(c, LastOrder) /\ Dist(c, LastOrder) = Dist(Chosen, LastOrder))
                => Chosen <= c

\* the message of the no-courier result
NoCourierAvailable == << <<"No available courier found">> >>

\* the profiles of the user a request returned
ProfilesOf(courier_id) == {c \in CourierIds : Some(couriers[c].user_id) = courier_id}

Eligible(c) ==
    /\ couriers[c].is_available = TRUE
    /\ couriers[c].is_verified = TRUE
    /\ couriers[c].current_latitude # None
    /\ couriers[c].current_longitude # None

\* C12: the courier an auto-assignment returns, and the courier of every
\* order, is available, verified and has a latitude and a longitude; no
\* unavailable, unverified or unlocated courier is assigned.  (No step
\* changes a courier profile, so the profile now is the profile at the
\* moment of assignment.)
C12_OnlyEligibleAssigned ==
    /\ WasAssigned => \A c \in ProfilesOf(last.courier_id) : Eligible(c)
    /\ \A o \in 1..Len(orders) :
          orders[o].courier_id # None
              => \A c \in ProfilesOf(orders[o].courier_id) : Eligible(c)

\* a courier 5 km away was assigned while an unavailable one was 3 km away
C12_Witness ==
    /\ WasAssigned
    /\ Dist(Chosen, LastOrder) = 5003
    /\ \E c \in CourierIds :
          /\ couriers[c].is_available = FALSE
          /\ couriers[c].is_verified = TRUE
          /\ couriers[c].current_latitude # None
          /\ couriers[c].current_longitude # None
          /\ Dist(c, LastOrder) = 3002

----------------------------------------------------------------------------
(* The preconditions of auto_assign_courier (under SpecSeed) *)

\* the request of this step failed with the message given and wrote nothing
FailedWith(message) ==
    /\ ~last'.ok
    /\ last'.errors = <<message>>
    /\ last'.courier_id = None
    /\ orders' = orders
    /\ notifications' = notifications

\* C13: an auto-assignment for an unknown order id fails as not found; for
\* an order that has a courier it fails as already assigned, whatever the
\* order's status; for an order without courier whose status is neither
\* PENDING nor ASSIGNED it fails as not assignable; and none of the three
\* changes an order or adds a notification.
C13_PreconditionsInOrder ==
    [][last'.op = "auto_assign" =>
          IF last'.order \notin 1..Len(orders)
          THEN FailedWith(<<"Order not found">>)
          ELSE IF orders[last'.order].courier_id # None
          THEN FailedWith(<<"Order already has assigned courier">>)
          ELSE orders[last'.order].status \notin {PENDING, ASSIGNED}
                  => FailedWith(<<"Order status ", orders[last'.order].status,
                                  " cannot be auto-assigned">>)]_vars

\* the request named a DELIVERED order that has a courier, and failed as
\* already assigned
C13_Witness ==
    /\ last.op = "auto_assign" /\ ~last.ok
    /\ last.order \in 1..Len(orders)
    /\ LastOrder.status = DELIVERED /\ LastOrder.courier_id # None
    /\ last.errors = << <<"Order already has assigned courier">> >>
    /\ \E o \in 1..Len(orders) :
          orders[o].status = CANCELLED /\ orders[o].courier_id = None

----------------------------------------------------------------------------
(* The writes of auto_assign_courier (under Spec) *)

\* C14: a step in which an auto-assignment succeeds sets the order's courier
\* to the user returned and its status to ASSIGNED, leaves every other order
\* and every other field as it was, and appends to the notifications, which
\* it otherwise leaves as they were, a COURIER_ASSIGNED for the order's
\* customer and a NEW_ASSIGNMENT for the courier, both for this order; a
\* step in which it fails writes none of these.
C14_AssignmentWritesAtomic ==
    [][last'.op = "auto_assign" =>
          IF last'.ok
          THEN /\ last'.courier_id # None
               /\ orders' = [orders EXCEPT ![last'.order] =
                                [@ EXCEPT !.courier_id = last'.courier_id,
                                          !.status = ASSIGNED]]
               /\ notifications' = notifications \o
                     << [user_id |-> orders[last'.order].user_id,
                         order_id |-> last'.order, type |-> "COURIER_ASSIGNED"],
                        [user_id |-> Val(last'.courier_id),
                         order_id |-> last'.order, type |-> "NEW_ASSIGNMENT"] >>
          ELSE orders' = orders /\ notifications' = notifications]_vars

\* the second order was assigned after the first: four notifications, the
\* first two those of the first order
C14_Witness ==
    /\ WasAssigned /\ last.order = 2
    /\ LastOrder.status = ASSIGNED /\ LastOrder.courier_id = last.courier_id
    /\ Len(notifications) = 4
    /\ notifications[1].order_id = 1 /\ notifications[2].order_id = 1
    /\ notifications[3] = [user_id |-> LastOrder.user_id, order_id |-> 2,
                           type |-> "COURIER_ASSIGNED"]
    /\ notifications[4] = [user_id |-> Val(last.courier_id), order_id |-> 2,
                           type |-> "NEW_ASSIGNMENT"]

----------------------------------------------------------------------------
(* The e-mail of auto_assign_courier (under SpecEmail) *)

\* the last request wrote an assignment, called send_courier_assigned, and
\* mail.send raised
EmailFailed ==
    /\ last.op = "auto_assign"
    /\ last.email_attempted
    /\ last.mail_send # "sent"

\* C25: a failure of the assignment e-mail never fails or undoes the
\* assignment: auto_assign_courier still returns success and the order has
\* its courier, status ASSIGNED and both notifications.
C25_EmailFailureKeepsAssignment ==
    EmailFailed =>
        /\ last.ok
        /\ last.courier_id # None
        /\ orders[last.order].courier_id = last.courier_id
        /\ orders[last.order].status = ASSIGNED
        /\ \E i \in 1..Len(notifications) :
              notifications[i] = [user_id |-> orders[last.order].user_id,
                                  order_id |-> last.order,
                                  type |-> "COURIER_ASSIGNED"]
        /\ \E i \in 1..Len(notifications) :
              notifications[i] = [user_id |-> Val(last.courier_id),
                                  order_id |-> last.order,
                                  type |-> "NEW_ASSIGNMENT"]

\* mail.send raised, the e-mail call returned an error, and the order is
\* assigned
C25_Witness ==
    /\ EmailFailed
    /\ last.email = Some([status |-> "error", message |-> "SMTPException"])
    /\ last.ok
    /\ orders[last.order].status = ASSIGNED
    /\ Len(notifications) = 2

----------------------------------------------------------------------------
(* auto_assign_courier, one statement group at a time (under SpecConc) *)

(***************************************************************************)
(* Each caller runs one request in a session of its own.  The function     *)
(* takes no lock and selects no row FOR UPDATE: it reads the order row,    *)
(* tests the copy it read, and its writes are an UPDATE of the row by      *)
(* primary key and two INSERTs, committed by the caller.                   *)
(***************************************************************************)

\* line 51: order = DeliveryOrder.query.get(order_id)
CallLoad(k, order_id) ==
    /\ calls[k].pc = "idle"
    /\ calls' = [calls EXCEPT ![k] =
                    [@ EXCEPT !.pc = "loaded", !.order_id = order_id,
                              !.order = IF order_id \in 1..Len(orders)
                                        THEN Some(orders[order_id]) ELSE None]]
    /\ UNCHANGED <<orders, couriers, notifications, payments, audit, last>>

\* lines 53-69: the tests on the row read, the candidate query, the choice
CallCheck(k, candidates) ==
    /\ calls[k].pc = "loaded"
    /\ LET fail(message) ==
               [calls EXCEPT ![k] = [@ EXCEPT !.pc = "done", !.ret = Some(Failure(message))]]
       IN
       calls' =
         IF calls[k].order = None
         THEN fail(<<"Order not found">>)
         ELSE
           LET order == Val(calls[k].order) IN
           IF has_courier(order)
           THEN fail(<<"Order already has assigned courier">>)
           ELSE IF ~auto_assignable(order)
           THEN fail(<<"Order status ", order.status, " cannot be auto-assigned">>)
           ELSE
             LET found == find_nearest_available_courier(
                              order.pickup_lat, order.pickup_lng,
                              max_distance_km_default, candidates)
             IN
             IF found.nearest = None
             THEN fail(<<"No available courier found">>)
             ELSE IF couriers[Val(found.nearest)].user_id \notin Users
             THEN fail(<<"Courier user not found">>)
             ELSE [calls EXCEPT ![k] =
                      [@ EXCEPT !.pc = "assigning", !.courier = found.nearest,
                                !.ret = Some([success |-> TRUE, message |-> << >>,
                                              courier_id |-> Some(couriers[Val(found.nearest)].user_id),
                                              distance |-> found.nearest_distance])]]
    /\ UNCHANGED <<orders, couriers, notifications, payments, audit, last>>

\* lines 71-85 and the caller's commit: the writes reach the tables
CallWrite(k) ==
    /\ calls[k].pc = "assigning"
    /\ LET order_id == calls[k].order_id
           order == Val(calls[k].order)
           c == Val(calls[k].courier)
       IN /\ orders' = assign_orders(orders, order_id, order, c)
          /\ notifications' = assign_notifications(notifications, order_id, order, c)
    /\ calls' = [calls EXCEPT ![k].pc = "done"]
    /\ UNCHANGED <<couriers, payments, audit, last>>

NextConc ==
    \/ \E u \in Customers, lat \in PickupLats : CreateOrder(u, lat)
    \/ \E k \in Callers, o \in OrderIds : CallLoad(k, o)
    \/ \E k \in Callers, q \in QueryResults : CallCheck(k, q)
    \/ \E k \in Callers : CallWrite(k)

\* concurrent auto-assignment requests
SpecConc == Init /\ [][NextConc]_vars

\* the notifications of an order
NotificationsOf(order_id, type) ==
    {i \in 1..Len(notifications) :
        notifications[i].order_id = order_id /\ notifications[i].type = type}

\* C4: of two auto-assignment requests for the same PENDING order without
\* courier, however their steps interleave, exactly one returns success and
\* the other fails as already assigned, and the order has one COURIER_ASSIGNED
\* and one NEW_ASSIGNMENT notification.
C4_OneAssignmentWins ==
    \A k1, k2 \in Callers :
        (/\ k1 # k2
         /\ calls[k1].pc = "done" /\ calls[k2].pc = "done"
         /\ calls[k1].order_id = calls[k2].order_id
         /\ calls[k1].order # None /\ calls[k2].order # None)
            => /\ \E w \in {k1, k2} : \A k \in {k1, k2} :
                     /\ Val(calls[k].ret).success <=> (k = w)
                     /\ k # w => Val(calls[k].ret).message
                                     = <<"Order already has assigned courier">>
               /\ Cardinality(NotificationsOf(calls[k1].order_id, "COURIER_ASSIGNED")) = 1
               /\ Cardinality(NotificationsOf(calls[k1].order_id, "NEW_ASSIGNMENT")) = 1

----------------------------------------------------------------------------
(* Status polls (under SpecPoll) *)

\* C18: a step that is a status poll, whatever it returns, leaves the
\* orders, the payments and the notifications as they were, and triggers no
\* auto-assignment.
C18_PollHasNoSideEffects ==
    [][last'.op = "query_status" =>
          /\ orders' = orders
          /\ payments' = payments
          /\ notifications' = notifications
          /\ audit' = audit]_vars

\* the poll of a PROCESSING payment returned completed: the payment is still
\* PROCESSING and its order has no courier
C18_Witness ==
    /\ last.op = "query_status" /\ last.ok
    /\ last.new_status = Some("completed")
    /\ \E p \in 1..Len(payments) :
          /\ payments[p].order_id = last.order
          /\ payments[p].payment_status = "PROCESSING"
          /\ audit[p].triggers = 0
    /\ LastOrder.courier_id = None
    /\ notifications = << >>

----------------------------------------------------------------------------
(* Replayed callbacks (under SpecPay) *)

\* the result code a well-formed callback carries
RawResultCode(callback_data) ==
    get(get(get(callback_data, "Body", EmptyDict), "stkCallback", EmptyDict),
        "ResultCode", JNull)

\* payment p has processed a callback with result code 0 first, and has just
\* processed the same callback again
Replayed(p) ==
    /\ audit[p].callbacks >= 2
    /\ audit[p].first # None
    /\ audit[p].last_payload = audit[p].first
    /\ RawResultCode(CallbackData(Val(audit[p].first))) = JInt(0)

Count(order_id, type) == Cardinality(NotificationsOf(order_id, type))

\* what holds of a replayed successful callback whether or not a courier
\* could be assigned: one PAID outcome, one trigger, the same result returned
ReplayIsNoOp(p) ==
    /\ payments[p].payment_status = "PAID"
    /\ audit[p].paid = 1
    /\ audit[p].triggers = 1
    /\ audit[p].last_returned = audit[p].first_returned
    /\ Count(payments[p].order_id, "PAYMENT_CONFIRMED") = 1

====
